---------------------------- MODULE Spec2Model ----------------------------
(***************************************************************************)
(* Model of the session lifecycle manager (internal/session/manager.go),   *)
(* the assistant process supervisor (internal/session/claude.go), the      *)
(* persistence gateway they call (package db) and the sessions schema.     *)
(*                                                                         *)
(* A session id is a 128-bit random value in the code; here the id of the  *)
(* createSession call that generated it stands for it, so two calls never  *)
(* draw the same id.                                                       *)
(***************************************************************************)
EXTENDS Integers, Sequences, FiniteSets, TLC

\* ------------------------------------------------------------------ bounds
MaxCreates == 2     \* createSession calls
MaxEnds == 2        \* endSession callers (user stop, idle sweep, shutdown)
MaxSends == 1       \* sendToSession calls
MaxTime == 2        \* clock ticks, in units of the idle threshold
MaxStarts == 2      \* start calls made on the supervisors
MaxStops == 2       \* stop calls made on the supervisor
MaxResults == 2     \* result messages an assistant emits
MaxCmds == 2        \* send calls made on the supervisor
MaxContinues == 2
MaxStores == 3
MaxLookups == 2
MaxGitCalls == 2
MaxUsage == 2   \* continue commands

\* ------------------------------------------------------- program constants
IdleTimeout == 1    \* config.Session.IdleTimeout, one clock unit
MaxPerUser == 1     \* config.Session.MaxPerUser, which Validate keeps positive

NULL == -1          \* SQL NULL of ended_at; "no row" of a lookup is 0

FeatureNames == {"feat-a", "feat-b"}
Channels == {"C1"}
Threads == {"t1", "t2"}
Users == {1, 2}
Creators == {1}
WorkspaceID == "default-workspace"

NonTerminal == {"starting", "active", "ending"}
Terminal == {"ended", "error"}
SessionIDs == 1..MaxCreates

VARIABLES
    sessions,       \* table sessions: sequence of rows, a row's id is its index
    session_users,  \* table session_users: set of [session, user, role]
    now,            \* wall clock (CURRENT_TIMESTAMP, time.Now())
    creates,        \* createSession calls in flight
    setups,         \* setupSessionAsync runs
    ends,           \* endSession callers
    sends,          \* sendToSession calls
    workdirs,       \* working directories on disk, by session id
    csmSessions,    \* the sessions map of each ClaudeStreamManager constructed
    streamProcs,    \* assistant subprocesses started by StartStreamingSession
    results,        \* costs of the result messages emitted, as [sid, cost]
    processes,      \* ClaudeManager.processes: session id -> process, 0 when absent
    procs,          \* the ClaudeProcess objects ever created
    cmMu,           \* holder of ClaudeManager.mu's write lock, 0 when free
    starts,         \* start calls made on the supervisors
    stops,          \* ClaudeManager.StopSession calls
    cmds,           \* ClaudeManager.SendCommand calls
    stopAll,        \* the ClaudeManager.StopAllSessions call
    continues,      \* continue commands handled
    credentials,    \* table credentials: set of [user, type, value]
    stores,         \* StoreCredential calls
    lookups,        \* session lookups made through the manager
    repos,          \* reposDir: the local clones, by directory name
    worktrees,      \* worktreesDir: the directories made, by feature name
    gitcalls,       \* SetupSessionRepo calls
    ctxDone         \* supervisor calls whose context has been cancelled

envVars == <<workdirs, csmSessions, streamProcs, results>>
supVars == <<processes, procs, cmMu, starts, stops, cmds, stopAll>>
credVars == <<credentials, stores>>
gitVars == <<repos, worktrees, gitcalls>>
vars == <<sessions, session_users, now, creates, setups, ends, sends,
          workdirs, csmSessions, streamProcs, results, processes, procs, cmMu,
          starts, stops, cmds, stopAll, continues, credentials, stores,
          lookups, repos, worktrees, gitcalls, ctxDone>>

\* ------------------------------------------------- persistence gateway (db)
RowIds(rows) == DOMAIN rows

\* sessions table: UNIQUE(branch_name), UNIQUE(work_tree_path),
\* UNIQUE(slack_channel_id, slack_thread_ts); TRUE when row r cannot coexist
\* with the rows other than row number skip.
UniqueBranchOnly(rows, r, skip) ==
    \E i \in RowIds(rows) : i # skip /\ rows[i].branch_name = r.branch_name

UniqueViolation(rows, r, skip) ==
    \E i \in RowIds(rows) :
        /\ i # skip
        /\ \/ rows[i].branch_name = r.branch_name
           \/ rows[i].work_tree_path = r.work_tree_path
           \/ /\ rows[i].slack_channel_id = r.slack_channel_id
              /\ rows[i].slack_thread_ts = r.slack_thread_ts

NoBranchNameCheck(rows, branchName) == FALSE

CheckBranchNameExists(rows, branchName) ==
    \E i \in RowIds(rows) : rows[i].branch_name = branchName

\* Row id of the session with this session_id, 0 for sql.ErrNoRows.
GetSession(rows, sessionID) ==
    IF \E i \in RowIds(rows) : rows[i].session_id = sessionID
    THEN CHOOSE i \in RowIds(rows) : rows[i].session_id = sessionID
    ELSE 0

UpdateSessionStatus(rows, sessionID, status, t) ==
    [i \in RowIds(rows) |->
        IF rows[i].session_id = sessionID
        THEN [rows[i] EXCEPT !.status = status,
                             !.updated_at = t,
                             !.ended_at = IF status = "ended" THEN t ELSE @]
        ELSE rows[i]]

\* The rows with status 'active' as the query returns them, newest first.
RECURSIVE ActiveFrom(_, _)
ActiveFrom(rows, i) ==
    IF i = 0 THEN <<>>
    ELSE (IF rows[i].status = "active" THEN <<rows[i]>> ELSE <<>>)
         \o ActiveFrom(rows, i - 1)

GetAllActiveSessions(rows) == ActiveFrom(rows, Len(rows))

\* UPDATE sessions SET running_cost = ?, updated_at = CURRENT_TIMESTAMP.
UpdateSessionCost(rows, sessionID, cost, t) ==
    [i \in RowIds(rows) |->
        IF rows[i].session_id = sessionID
        THEN [rows[i] EXCEPT !.running_cost = cost, !.updated_at = t]
        ELSE rows[i]]

\* UPDATE sessions SET slack_thread_ts = ?, updated_at = CURRENT_TIMESTAMP.
UpdateSessionThread(rows, sessionID, newThreadTS, t) ==
    [i \in RowIds(rows) |->
        IF rows[i].session_id = sessionID
        THEN [rows[i] EXCEPT !.slack_thread_ts = newThreadTS, !.updated_at = t]
        ELSE rows[i]]

\* Row id of the session with this branch name, 0 for sql.ErrNoRows.
GetSessionByBranchName(rows, branchName) ==
    IF \E i \in RowIds(rows) : rows[i].branch_name = branchName
    THEN CHOOSE i \in RowIds(rows) : rows[i].branch_name = branchName
    ELSE 0

AnyoneAssociated(members, id, userID) == TRUE

IsUserAssociatedWithSession(members, id, userID) ==
    \E su \in members : su.session = id /\ su.user = userID

\* ------------------------------------------- process supervisor (claude.go)
NewProcess(sessionID) ==
    [sid |-> sessionID, Status |-> "running", alive |-> TRUE,
     exitErr |-> FALSE, waited |-> FALSE, terminated |-> 0, closed |-> 0,
     Stdin |-> <<>>, OutputChan |-> <<>>]

\* claude.go 54-132: the outcome of StartSession; launched says whether the
\* pipes and cmd.Start succeeded.
StartSession(registry, sessionID, launched) ==
    IF registry[sessionID] # 0 THEN "SessionExists"
    ELSE IF ~launched THEN "error:start"
    ELSE "ok"

\* claude.go 135-145 and 290-294: the status the supervisor reports for a
\* session id, "none" when the registry has no entry.
GetStatus(registry, procSeq, sessionID) ==
    IF registry[sessionID] = 0 THEN "none"
    ELSE procSeq[registry[sessionID]].Status

\* claude.go 167-168: delete(cm.processes, sessionID).
KeepRegistered(registry, sessionID) == registry

Unregister(registry, sessionID) == [registry EXCEPT ![sessionID] = 0]

\* claude.go 236-250: Stop past its status check; "exit" is written to the
\* process's input stream, which is then closed.
Stopping(proc) == [proc EXCEPT !.Status = "stopping"]

\* claude.go 252-276: the process has exited, by itself or on SIGKILL after
\* five seconds, and is reaped; done is closed, the status set.
Stopped(proc) ==
    [proc EXCEPT !.Status = "stopped",
                 !.alive = FALSE,
                 !.terminated = IF proc.alive THEN @ + 1 ELSE @,
                 !.closed = @ + 1]

\* ------------------------------------------------------------ createSession
NewSession(sessionID, req, t) ==
    [session_id |-> sessionID,
     slack_workspace_id |-> WorkspaceID,
     slack_channel_id |-> req.channel,
     slack_thread_ts |-> req.thread,
     branch_name |-> req.feature,
     work_tree_path |-> "",
     running_cost |-> 0,
     status |-> "starting",
     updated_at |-> t,
     ended_at |-> NULL]

ModelSonnet == "sonnet"
ModelOpus == "opus"

Requests == [feature : FeatureNames, channel : Channels, thread : Threads,
             user : Creators, repo : {"git@host:repo"}, from : {"main"},
             model : {ModelSonnet}]

NoRequest == [feature |-> "", channel |-> "", thread |-> "", user |-> 0,
              repo |-> "", from |-> "", model |-> ""]

IdleCreate == [pc |-> "idle", req |-> NoRequest, result |-> "none"]

\* The call has returned result.
Returned(rec, result) == [pc |-> "done", req |-> rec.req, result |-> result]

FirstRequest ==
    [feature |-> "feat-a", channel |-> "C1", thread |-> "t1", user |-> 1,
     repo |-> "git@host:repo", from |-> "main", model |-> ModelSonnet]

\* Requests that differ from FirstRequest in one field.
OtherRequests ==
    {[FirstRequest EXCEPT !.repo = ""], [FirstRequest EXCEPT !.user = 0],
     [FirstRequest EXCEPT !.model = "haiku"],
     [FirstRequest EXCEPT !.model = ModelOpus],
     [FirstRequest EXCEPT !.channel = "general"]}
    \cup {[FirstRequest EXCEPT !.feature = n] :
            n \in {"", "my feat", "-feat", "feat-", "a..b", "a:b", "feat.b"}}

\* The characters of the feature names above.
Chars ==
    [n \in FeatureNames \cup {r.feature : r \in OtherRequests} |->
        CASE n = "feat-a" -> <<"f", "e", "a", "t", "-", "a">>
          [] n = "feat-b" -> <<"f", "e", "a", "t", "-", "b">>
          [] n = "" -> <<>>
          [] n = "my feat" -> <<"m", "y", " ", "f", "e", "a", "t">>
          [] n = "-feat" -> <<"-", "f", "e", "a", "t">>
          [] n = "feat-" -> <<"f", "e", "a", "t", "-">>
          [] n = "a..b" -> <<"a", ".", ".", "b">>
          [] n = "a:b" -> <<"a", ":", "b">>
          [] n = "feat.b" -> <<"f", "e", "a", "t", ".", "b">>]

\* manager.go 417-437, on the characters of the name.
ValidateFeatureName(name) ==
    IF name = <<>> THEN "empty"
    ELSE IF \E i \in DOMAIN name : name[i] = " " THEN "spaces"
    ELSE IF name[1] = "-" \/ name[Len(name)] = "-" THEN "hyphen"
    ELSE IF \E i \in 1..(Len(name) - 1) : name[i] = "." /\ name[i + 1] = "."
         THEN "dots"
    ELSE IF \E i \in DOMAIN name : name[i] \in {"~", "^", ":", "?", "*", "[", "\\"}
         THEN "characters"
    ELSE "ok"

AcceptEveryRequest(req) == "ok"

\* manager.go 368-408; the workspace is the handler's constant.
validateCreateSessionRequest(req) ==
    IF WorkspaceID = "" \/ req.user = 0 \/ req.channel = "" \/ req.repo = ""
       \/ req.from = "" \/ req.feature = "" \/ req.model = ""
    THEN "InvalidCommand"
    ELSE IF req.model # ModelSonnet /\ req.model # ModelOpus
    THEN "InvalidCommand"
    ELSE IF ValidateFeatureName(Chars[req.feature]) # "ok" THEN "InvalidCommand"
    ELSE IF req.channel = "general" THEN "InvalidChannel"
    ELSE "ok"

\* manager.go 39-53: validation, then the branch-name check, for a request
\* out of reqs.
CreateCheck(c, reqs) ==
    /\ creates[c].pc = "idle"
    /\ \E req \in reqs :
        creates' = [creates EXCEPT ![c] =
            IF validateCreateSessionRequest(req) # "ok"
            THEN Returned([@ EXCEPT !.req = req], validateCreateSessionRequest(req))
            ELSE IF CheckBranchNameExists(sessions, req.feature)
            THEN Returned([@ EXCEPT !.req = req], "SessionExists")
            ELSE [@ EXCEPT !.pc = "insert", !.req = req]]
    /\ UNCHANGED <<sessions, session_users, now, setups, ends, sends, envVars, supVars,
                   continues,
                   credVars, lookups, gitVars, ctxDone>>

\* manager.go 55-74: the insert of the row, status starting.
CreateInsert(c) ==
    /\ creates[c].pc = "insert"
    /\ LET r == NewSession(c, creates[c].req, now) IN
       IF UniqueViolation(sessions, r, 0)
       THEN /\ creates' = [creates EXCEPT ![c] = Returned(@, "StoreFailed")]
            /\ UNCHANGED sessions
       ELSE /\ sessions' = Append(sessions, r)
            /\ creates' = [creates EXCEPT ![c].pc = "owner"]
    /\ UNCHANGED <<session_users, now, setups, ends, sends, envVars, supVars,
                   continues,
                   credVars, lookups, gitVars, ctxDone>>

\* INSERT INTO session_users ... ON CONFLICT(session_id, user_id) DO UPDATE
\* SET role: the user's one row for the session carries the new role.
AddUserToSession(members, id, userID, role) ==
    {su \in members : ~(su.session = id /\ su.user = userID)}
        \cup {[session |-> id, user |-> userID, role |-> role]}

\* manager.go 76-82: the owner membership; when the insert fails the error
\* is returned and the session row stays.
CreateAddOwner(c) ==
    /\ creates[c].pc = "owner"
    /\ \E ok \in BOOLEAN :
        IF ok
        THEN /\ session_users' =
                    AddUserToSession(session_users, GetSession(sessions, c),
                                     creates[c].req.user, "owner")
             /\ creates' = [creates EXCEPT ![c] = Returned(@, "ok")]
        ELSE /\ UNCHANGED session_users
             /\ creates' = [creates EXCEPT ![c] = Returned(@, "OwnerFailed")]
    /\ UNCHANGED <<sessions, now, setups, ends, sends, envVars, supVars,
                   continues,
                   credVars, lookups, gitVars, ctxDone>>

\* ------------------------------------------------------- setupSessionAsync
\* ran: the steps the run has entered; report: the last outcome handed to
\* the progress callback.
IdleSetup == [pc |-> "idle", sid |-> 0, feature |-> "", mgr |-> 0,
              ran |-> {}, report |-> "none"]

\* handler.go 157-173: the one background setup of a session just created.
LaunchSetup(u) ==
    /\ setups[u].pc = "idle"
    /\ creates[u].pc = "done"
    /\ creates[u].result = "ok"
    /\ setups' = [setups EXCEPT ![u] =
          [IdleSetup EXCEPT !.pc = "repo", !.sid = u,
                            !.feature = creates[u].req.feature]]
    /\ UNCHANGED <<sessions, session_users, now, creates, ends, sends, envVars,
                   supVars,
                   continues,
                   credVars, lookups, gitVars, ctxDone>>

AfterSetupStepContinuing(step, ok) ==
    CASE step = "repo" -> "prompt"
      [] step = "prompt" -> "start"
      [] step = "start" -> "mark"

\* Where the run goes after a step: on to the next step, or out through the
\* return that follows the failure branch (manager.go 104, 116, 134).
AfterSetupStep(step, ok) ==
    IF ~ok THEN "done"
    ELSE CASE step = "repo" -> "prompt"
           [] step = "prompt" -> "start"
           [] step = "start" -> "mark"

\* A step of setup failed: the progress callback gets the failure, then the
\* row is marked error (manager.go 101-105, 113-117, 131-135).
SetupFailed(u, step) ==
    /\ sessions' = UpdateSessionStatus(sessions, setups[u].sid, "error", now)
    /\ setups' = [setups EXCEPT ![u].pc = AfterSetupStep(step, FALSE),
                                ![u].ran = @ \cup {step},
                                ![u].report = "failed:" \o step]

\* manager.go 96-109 and git_manager_new.go 36-181: the working directory,
\* worktreesDir/featureName, must not exist yet.
SetupRepo(u) ==
    /\ setups[u].pc = "repo"
    /\ \E ok \in BOOLEAN :
        IF ok /\ setups[u].feature \notin workdirs
        THEN /\ workdirs' = workdirs \cup {setups[u].feature}
             /\ setups' = [setups EXCEPT ![u].pc = AfterSetupStep("repo", TRUE),
                                         ![u].ran = @ \cup {"repo"}]
             /\ UNCHANGED sessions
        ELSE /\ SetupFailed(u, "repo")
             /\ UNCHANGED workdirs
    /\ UNCHANGED <<session_users, now, creates, ends, sends, csmSessions,
                   streamProcs, results, supVars,
                   continues,
                   credVars, lookups, gitVars, ctxDone>>

\* manager.go 111-117, 143-161: a named prompt may not be found.
SetupPrompt(u) ==
    /\ setups[u].pc = "prompt"
    /\ \E ok \in BOOLEAN :
        IF ok
        THEN /\ setups' = [setups EXCEPT ![u].pc = AfterSetupStep("prompt", TRUE),
                                         ![u].ran = @ \cup {"prompt"}]
             /\ UNCHANGED sessions
        ELSE SetupFailed(u, "prompt")
    /\ UNCHANGED <<session_users, now, creates, ends, sends, envVars, supVars,
                   continues,
                   credVars, lookups, gitVars, ctxDone>>

\* claude.go 718-760: StartStreamingSession on the manager instance mgr.
\* registry is that instance's sessions map; launched says whether cmd.Start
\* succeeded. Both failures are plain fmt.Errorf errors, without a kind.
StartStreamingSession(registry, sessionID, launched) ==
    IF sessionID \in registry THEN "error:exists"
    ELSE IF ~launched THEN "error:start"
    ELSE "started"

NewStreamProc(sessionID, mgr) ==
    [sid |-> sessionID, mgr |-> mgr, alive |-> TRUE, RunningCost |-> 0]

\* The package holds two bodies of StartStreamingSession with one signature.
\* "goroutine" (claude.go 718-828) reads the subprocess's output in
\* goroutines and returns once the subprocess has started. "inline"
\* (claude.go 463-569) reads the output in the call itself while holding
\* csm.mu (464-465), and on the way out runs the closure deferred at 508-514,
\* which locks csm.mu again before the deferred unlock of 465 has run: the
\* call does not return once the subprocess has started.
StreamVariants == {"goroutine", "inline"}

\* manager.go 119-135: the setup starts the assistant through a stream
\* manager it constructs for itself (NewClaudeStreamManager, line 120).
SetupStart(u) ==
    /\ setups[u].pc = "start"
    /\ \E launched \in BOOLEAN, variant \in StreamVariants :
        LET mgr == Len(csmSessions) + 1
            res == StartStreamingSession({}, setups[u].sid, launched) IN
        IF res = "started"
        THEN /\ csmSessions' = Append(csmSessions, {setups[u].sid})
             /\ streamProcs' = Append(streamProcs, NewStreamProc(setups[u].sid, mgr))
             /\ setups' = [setups EXCEPT
                    ![u].pc = IF variant = "goroutine"
                              THEN AfterSetupStep("start", TRUE)
                              ELSE "stream",
                    ![u].ran = @ \cup {"start"},
                    ![u].mgr = mgr]
             /\ UNCHANGED sessions
        ELSE /\ csmSessions' = Append(csmSessions, {})
             /\ SetupFailed(u, "start")
             /\ UNCHANGED streamProcs
    /\ UNCHANGED <<session_users, now, creates, ends, sends, workdirs, results,
                   supVars,
                   continues,
                   credVars, lookups, gitVars, ctxDone>>

\* manager.go 137-139: the row is marked active and readiness is reported.
SetupMarkActive(u) ==
    /\ setups[u].pc = "mark"
    /\ sessions' = UpdateSessionStatus(sessions, setups[u].sid, "active", now)
    /\ setups' = [setups EXCEPT ![u].pc = "done", ![u].report = "ready"]
    /\ UNCHANGED <<session_users, now, creates, ends, sends, envVars, supVars,
                   continues,
                   credVars, lookups, gitVars, ctxDone>>

\* manager.go 88-94: a panic inside one of the three steps unwinds to the
\* deferred recover, which reports it and marks the row error.
SetupPanic(u) ==
    /\ setups[u].pc \in {"repo", "prompt", "start"}
    /\ sessions' = UpdateSessionStatus(sessions, setups[u].sid, "error", now)
    /\ setups' = [setups EXCEPT ![u].pc = "done",
                                ![u].ran = @ \cup {setups[u].pc},
                                ![u].report = "panic"]
    /\ UNCHANGED <<session_users, now, creates, ends, sends, envVars, supVars,
                   continues,
                   credVars, lookups, gitVars, ctxDone>>

\* --------------------------------------------------------------- endSession
\* user, found: for a stop command, who issued it and the row its lookup
\* returned.
IdleEnd == [pc |-> "idle", origin |-> "none", queue |-> <<>>, sid |-> 0,
            WorkTreePath |-> "", result |-> "none", failed |-> {},
            user |-> 0, found |-> 0]

StartEnds(e, origin, queue) ==
    ends' = [ends EXCEPT ![e] =
        [IdleEnd EXCEPT !.pc = IF queue = <<>> THEN "done" ELSE "get",
                        !.origin = origin, !.queue = queue]]

\* A caller of EndSession for one session id (handler.go 265-268).
EndUserStop(e) ==
    /\ ends[e].pc = "idle"
    /\ \E sid \in SessionIDs : StartEnds(e, "user", <<sid>>)
    /\ UNCHANGED <<sessions, session_users, now, creates, setups, sends,
                   envVars, supVars,
                   continues,
                   credVars, lookups, gitVars, ctxDone>>

\* SELECT ... WHERE slack_workspace_id = ? AND slack_channel_id = ? AND
\* slack_thread_ts = ? AND status = 'active' ORDER BY created_at DESC LIMIT 1:
\* the row id, 0 for the nil result.
GetActiveSessionForChannel(rows, workspaceID, channelID, threadTS) ==
    LET found == {i \in RowIds(rows) :
                     /\ rows[i].slack_workspace_id = workspaceID
                     /\ rows[i].slack_channel_id = channelID
                     /\ rows[i].slack_thread_ts = threadTS
                     /\ rows[i].status = "active"} IN
    IF found = {} THEN 0 ELSE CHOOSE i \in found : \A j \in found : j <= i

\* SELECT user_id FROM session_users WHERE session_id = ? AND role = 'owner':
\* the user of the first such row, 0 for sql.ErrNoRows.
GetSessionOwner(members, id) ==
    LET owners == {su.user : su \in {m \in members :
                                        m.session = id /\ m.role = "owner"}} IN
    IF owners = {} THEN 0 ELSE CHOOSE u \in owners : TRUE

StopAllowedForAll(ownerID, userID) == TRUE

\* handler.go 261: ownerID != user.ID turns the command away.
StopAllowed(ownerID, userID) == ownerID = userID

\* handler.go 244-271: a stop command from a channel and thread; the active
\* session bound there is looked up, its owner compared with the caller, and
\* EndSession called for it.
handleStopCommand(e) ==
    /\ ends[e].pc = "idle"
    /\ \E user \in Users, channelID \in Channels, threadTS \in Threads :
        LET i == GetActiveSessionForChannel(sessions, WorkspaceID, channelID,
                                            threadTS)
            turned(result) == [IdleEnd EXCEPT !.pc = "done", !.origin = "stop",
                                              !.user = user, !.found = i,
                                              !.result = result] IN
        ends' = [ends EXCEPT ![e] =
            IF i = 0 THEN turned("SessionNotFound")
            ELSE IF GetSessionOwner(session_users, i) = 0
                 THEN turned("SessionNotFound")
            ELSE IF ~StopAllowed(GetSessionOwner(session_users, i), user)
                 THEN turned("Unauthorized")
            ELSE [IdleEnd EXCEPT !.pc = "get", !.origin = "stop",
                                 !.queue = <<sessions[i].session_id>>,
                                 !.user = user, !.found = i]]
    /\ UNCHANGED <<sessions, session_users, now, creates, setups, sends,
                   envVars, supVars, continues,
                   credVars, lookups, gitVars, ctxDone>>

RECURSIVE SessionIDsOf(_)
SessionIDsOf(listed) ==
    IF listed = <<>> THEN <<>>
    ELSE <<Head(listed).session_id>> \o SessionIDsOf(Tail(listed))

RECURSIVE SelectIdle(_, _)
SelectAllListed(listed, t) == SessionIDsOf(listed)

\* manager.go 460-471: the listed sessions last updated more than the idle
\* timeout before t.
SelectIdle(listed, t) ==
    IF listed = <<>> THEN <<>>
    ELSE (IF t - Head(listed).updated_at > IdleTimeout
          THEN <<Head(listed).session_id>> ELSE <<>>)
         \o SelectIdle(Tail(listed), t)

\* manager.go 454-472: the listing and the clock are read once; the loop then
\* ends, one after the other, the listed sessions that were idle.
SweepList(e) ==
    /\ ends[e].pc = "idle"
    /\ StartEnds(e, "sweep", SelectIdle(GetAllActiveSessions(sessions), now))
    /\ UNCHANGED <<sessions, session_users, now, creates, setups, sends,
                   envVars, supVars,
                   continues,
                   credVars, lookups, gitVars, ctxDone>>

\* manager.go 248-266 (main.go 127): shutdown ends every listed session.
ShutdownList(e) ==
    /\ ends[e].pc = "idle"
    /\ StartEnds(e, "shutdown", SessionIDsOf(GetAllActiveSessions(sessions)))
    /\ UNCHANGED <<sessions, session_users, now, creates, setups, sends,
                   envVars, supVars,
                   continues,
                   credVars, lookups, gitVars, ctxDone>>

\* EndSession has returned result; the caller's loop moves on to its next
\* session, or is done. failed keeps the steps of this teardown that failed.
NextInQueue(rec, result) ==
    [rec EXCEPT !.pc = IF Len(rec.queue) > 1 THEN "get" ELSE "done",
                !.queue = Tail(rec.queue),
                !.sid = 0,
                !.WorkTreePath = "",
                !.result = result]

EndSessionAlwaysAllowed(status) == TRUE

\* manager.go 206-213: the status check that guards the teardown.
EndSessionAllowed(status) == status = "active"

EndGet(e) ==
    /\ ends[e].pc = "get"
    /\ LET sid == Head(ends[e].queue)
           i == GetSession(sessions, sid) IN
       ends' = [ends EXCEPT ![e] =
          IF i = 0 THEN NextInQueue(@, "SessionNotFound")
          ELSE IF ~EndSessionAllowed(sessions[i].status)
               THEN NextInQueue(@, "SessionNotFound")
          ELSE [@ EXCEPT !.pc = "ending", !.sid = sid,
                         !.WorkTreePath = sessions[i].work_tree_path,
                         !.failed = {}]]
    /\ UNCHANGED <<sessions, session_users, now, creates, setups, sends,
                   envVars, supVars,
                   continues,
                   credVars, lookups, gitVars, ctxDone>>

\* manager.go 217-220.
EndMarkEnding(e) ==
    /\ ends[e].pc = "ending"
    /\ sessions' = UpdateSessionStatus(sessions, ends[e].sid, "ending", now)
    /\ ends' = [ends EXCEPT ![e].pc = "stop"]
    /\ UNCHANGED <<session_users, now, creates, setups, sends, envVars, supVars,
                   continues,
                   credVars, lookups, gitVars, ctxDone>>

\* manager.go 222-236: where EndSession goes after the teardown step named
\* step has returned; a failure is logged and the teardown goes on.
AfterStepAborting(step, ok) ==
    IF ~ok THEN "abort"
    ELSE IF step = "stop" THEN "commit"
    ELSE IF step = "commit" THEN "cleanup"
    ELSE "ended"

AfterStepSkipping(step, ok) ==
    IF step = "stop" THEN (IF ok THEN "commit" ELSE "cleanup")
    ELSE IF step = "commit" THEN (IF ok THEN "cleanup" ELSE "ended")
    ELSE "ended"

AfterStep(step, ok) ==
    IF step = "stop" THEN "commit"
    ELSE IF step = "commit" THEN "cleanup"
    ELSE "ended"

\* The end caller's record once the teardown step has returned.
StepDone(rec, step, ok) ==
    LET to == AfterStep(step, ok)
        failed == IF ok THEN rec.failed ELSE rec.failed \cup {step} IN
    IF to = "abort"
    THEN NextInQueue([rec EXCEPT !.failed = failed], "TeardownFailed")
    ELSE [rec EXCEPT !.pc = to, !.failed = failed]

\* manager.go 222-225 with claude.go 158-171: StopSession for an id the
\* registry does not hold returns SessionNotFound; otherwise the entry is
\* deleted and the process stopped, all under the supervisor's lock.
EndStopProcess(e) ==
    /\ ends[e].pc = "stop"
    /\ cmMu = 0
    /\ LET p == processes[ends[e].sid] IN
       /\ ends' = [ends EXCEPT ![e] = StepDone(@, "stop", p # 0)]
       /\ processes' = IF p = 0 THEN processes
                       ELSE Unregister(processes, ends[e].sid)
       /\ procs' = IF p = 0 THEN procs
                   ELSE [procs EXCEPT ![p] = Stopped(Stopping(@))]
    /\ UNCHANGED <<sessions, session_users, now, creates, setups, sends,
                   envVars, cmMu, starts, stops,
                   cmds, stopAll,
                   continues,
                   credVars, lookups, gitVars, ctxDone>>

\* manager.go 227-231: its failure is only logged.
EndCommitAndPush(e) ==
    /\ ends[e].pc = "commit"
    /\ \E ok \in BOOLEAN :
        ends' = [ends EXCEPT ![e] = StepDone(@, "commit", ok)]
    /\ UNCHANGED <<sessions, session_users, now, creates, setups, sends,
                   envVars, supVars,
                   continues,
                   credVars, lookups, gitVars, ctxDone>>

\* GitManager.Cleanup, whose source is outside the files at hand: the
\* directory at the path is removed.
Cleanup(dirs, path) == dirs \ {path}

\* manager.go 233-236: the path is the one read from the row.
EndCleanup(e) ==
    /\ ends[e].pc = "cleanup"
    /\ \E ok \in BOOLEAN :
        /\ ends' = [ends EXCEPT ![e] = StepDone(@, "cleanup", ok)]
        /\ workdirs' = IF ok THEN Cleanup(workdirs, ends[e].WorkTreePath)
                       ELSE workdirs
    /\ UNCHANGED <<sessions, session_users, now, creates, setups, sends,
                   csmSessions, streamProcs, results, supVars,
                   continues,
                   credVars, lookups, gitVars, ctxDone>>

\* manager.go 238-244.
EndMarkEnded(e) ==
    /\ ends[e].pc = "ended"
    /\ sessions' = UpdateSessionStatus(sessions, ends[e].sid, "ended", now)
    /\ ends' = [ends EXCEPT ![e] = NextInQueue(@, "ok")]
    /\ UNCHANGED <<session_users, now, creates, setups, sends, envVars, supVars,
                   continues,
                   credVars, lookups, gitVars, ctxDone>>

\* ------------------------------------------------------------ sendToSession
\* doneAt: the time at which the call returned.
IdleSend == [pc |-> "idle", sid |-> 0, seen |-> "none", at |-> "none",
             result |-> "none", delivered |-> FALSE, doneAt |-> 0]

\* The persisted status of the session, "none" when there is no such row.
StatusOf(sessionID) ==
    IF GetSession(sessions, sessionID) = 0 THEN "none"
    ELSE sessions[GetSession(sessions, sessionID)].status

\* manager.go 181-183.
SendAllowed(status) == status = "active"

\* manager.go 174-183.
SendGet(m) ==
    /\ sends[m].pc = "idle"
    /\ \E sid \in SessionIDs :
        LET i == GetSession(sessions, sid) IN
        sends' = [sends EXCEPT ![m] =
            IF i = 0
            THEN [@ EXCEPT !.pc = "done", !.sid = sid, !.result = "SessionNotFound"]
            ELSE IF ~SendAllowed(sessions[i].status)
                 THEN [@ EXCEPT !.pc = "done", !.sid = sid,
                                !.seen = sessions[i].status,
                                !.result = "ClaudeUnavailable"]
            ELSE [@ EXCEPT !.pc = "deliver", !.sid = sid,
                           !.seen = sessions[i].status]]
    /\ UNCHANGED <<sessions, session_users, now, creates, setups, ends,
                   envVars, supVars,
                   continues,
                   credVars, lookups, gitVars, ctxDone>>

\* claude.go 134-155, 206-219: the registry lookup, the process status
\* check and the write to the process's input stream ("ok").
SendCommandUnchecked(registry, procSeq, sessionID) == "ok"

SendCommand(registry, procSeq, sessionID) ==
    IF registry[sessionID] = 0 THEN "SessionNotFound"
    ELSE IF procSeq[registry[sessionID]].Status # "running"
         THEN "ClaudeUnavailable"
    ELSE "ok"

\* manager.go 190-194; at is the persisted status when the supervisor is
\* called.
SendDeliver(m) ==
    /\ sends[m].pc = "deliver"
    /\ LET res == SendCommand(processes, procs, sends[m].sid) IN
       sends' = [sends EXCEPT ![m] =
          [@ EXCEPT !.pc = "done", !.at = StatusOf(sends[m].sid),
                    !.result = res, !.delivered = (res = "ok"),
                    !.doneAt = now]]
    /\ UNCHANGED <<sessions, session_users, now, creates, setups, ends,
                   envVars, supVars,
                   continues,
                   credVars, lookups, gitVars, ctxDone>>

\* ---------------------------------------------------------- continueSession
\* handler.go 179-241: the session is looked up by feature name, the caller
\* must be a member, and the row's thread is rebound (its channel is not).
\* The outcome for one command: its result, the row it found and the table
\* after it.
ContinueOutcome(rows, members, user, feature, threadTS, t) ==
    LET i == GetSessionByBranchName(rows, feature) IN
    IF i = 0 THEN [result |-> "SessionNotFound", id |-> 0, rows |-> rows]
    ELSE IF ~IsUserAssociatedWithSession(members, i, user)
         THEN [result |-> "Unauthorized", id |-> i, rows |-> rows]
    ELSE LET after == UpdateSessionThread(rows, rows[i].session_id, threadTS, t) IN
         IF UniqueViolation(rows, after[i], i)
         THEN [result |-> "error:update", id |-> i, rows |-> rows]
         ELSE [result |-> "ok", id |-> i, rows |-> after]

ContinueSession ==
    /\ \E user \in Users, feature \in FeatureNames, threadTS \in Threads :
        sessions' = ContinueOutcome(sessions, session_users, user, feature,
                                    threadTS, now).rows
    /\ UNCHANGED <<session_users, now, creates, setups, ends, sends, envVars,
                   supVars, continues,
                   credVars, lookups, gitVars, ctxDone>>

\* The channels a continue command is issued from.
CommandChannels == Channels \cup {"C2"}

\* old: the binding the row had when the command found it.
IdleContinue == [pc |-> "idle", user |-> 0, channel |-> "", thread |-> "",
                 result |-> "none", id |-> 0,
                 old |-> [channel |-> "", thread |-> ""]]

\* The same handler, keeping what the command was and how it ended.
handleContinueCommand(k) ==
    /\ continues[k].pc = "idle"
    /\ \E user \in Users, feature \in FeatureNames,
          channelID \in CommandChannels, threadTS \in Threads :
        LET out == ContinueOutcome(sessions, session_users, user, feature,
                                   threadTS, now) IN
        /\ sessions' = out.rows
        /\ continues' = [continues EXCEPT ![k] =
              [pc |-> "done", user |-> user, channel |-> channelID,
               thread |-> threadTS, result |-> out.result, id |-> out.id,
               old |-> IF out.id = 0 THEN IdleContinue.old
                       ELSE [channel |-> sessions[out.id].slack_channel_id,
                             thread |-> sessions[out.id].slack_thread_ts]]]
    /\ UNCHANGED <<session_users, now, creates, setups, ends, sends, envVars,
                   supVars,
                   credVars, lookups, gitVars, ctxDone>>

\* ----------------------------------------------------- assistant's messages
CostValues == {0, 4, 7}     \* cost_usd in units of 0.0005 USD

\* The subtypes of a result message (part_008 28-52).
ResultSubtypes == {"success", "error_max_turns"}

\* part_008 174-187 with manager.go 126-128: a result message's cost, when
\* positive, goes to the cost callback, which stores it.
ResultMessage(q) ==
    /\ q \in DOMAIN streamProcs
    /\ streamProcs[q].alive
    /\ Len(results) < MaxResults
    /\ \E cost \in CostValues, subtype \in ResultSubtypes :
        /\ results' = Append(results, [sid |-> streamProcs[q].sid, cost |-> cost,
                                       subtype |-> subtype])
        /\ sessions' = IF cost > 0
                       THEN UpdateSessionCost(sessions, streamProcs[q].sid, cost, now)
                       ELSE sessions
    /\ UNCHANGED <<session_users, now, creates, setups, ends, sends, workdirs,
                   csmSessions, streamProcs, supVars,
                   continues,
                   credVars, lookups, gitVars, ctxDone>>

\* The lines a subprocess may write: result messages with their subtype and
\* cost_usd, usage messages with the cost calculateCost gives them, and
\* content, error and done messages.
StdoutLines ==
    [type : {"result"}, subtype : ResultSubtypes, cost : CostValues]
        \cup [type : {"usage"}, subtype : {""}, cost : {1}]
        \cup [type : {"content", "error", "done"}, subtype : {""}, cost : {0}]

\* claude.go 772-816 (and 516-556): the stdout loop of StartStreamingSession
\* handles one line. A usage line adds its cost to the session's RunningCost
\* and hands the total to the cost callback (manager.go 126-128); the switch
\* has no case for type result, which falls to the default branch, where no
\* cost is forwarded.
StdoutLine(q) ==
    /\ q \in DOMAIN streamProcs
    /\ streamProcs[q].alive
    /\ \E line \in StdoutLines :
        IF line.type = "usage"
        THEN /\ streamProcs[q].RunningCost < MaxUsage
             /\ streamProcs' = [streamProcs EXCEPT ![q].RunningCost = @ + line.cost]
             /\ sessions' = UpdateSessionCost(sessions, streamProcs[q].sid,
                                              streamProcs'[q].RunningCost, now)
             /\ UNCHANGED results
        ELSE IF line.type = "result"
        THEN /\ Len(results) < MaxResults
             /\ results' = Append(results, [sid |-> streamProcs[q].sid,
                                            cost |-> line.cost,
                                            subtype |-> line.subtype])
             /\ UNCHANGED <<sessions, streamProcs>>
        ELSE UNCHANGED <<sessions, streamProcs, results>>
    /\ UNCHANGED <<session_users, now, creates, setups, ends, sends, workdirs,
                   csmSessions, supVars, continues, credVars, lookups, gitVars, ctxDone>>

\* The assistant subprocess exits; claude.go 764-770 clears IsActive, the
\* manager's map keeps the entry.
StreamExit(q) ==
    /\ q \in DOMAIN streamProcs
    /\ streamProcs[q].alive
    /\ streamProcs' = [streamProcs EXCEPT ![q].alive = FALSE]
    /\ UNCHANGED <<sessions, session_users, now, creates, setups, ends, sends,
                   workdirs, csmSessions, results, supVars,
                   continues,
                   credVars, lookups, gitVars, ctxDone>>

\* ------------------------------------------------- calls on the supervisors
IdleStart == [pc |-> "idle", sid |-> 0, result |-> "none"]

\* The session ids the supervisors are called with.
SupervisedIDs == {1, 2}

\* Call slot k of calls is the next to be used.
NextSlot(calls, k) ==
    /\ calls[k].pc = "idle"
    /\ IF k = 1 THEN TRUE ELSE calls[k - 1].pc # "idle"

\* claude.go 54-132: the whole call runs under cm.mu.
CMStartSession(k) ==
    /\ NextSlot(starts, k)
    /\ cmMu = 0
    /\ \E sid \in SupervisedIDs, launched \in BOOLEAN :
        LET res == StartSession(processes, sid, launched) IN
        /\ starts' = [starts EXCEPT ![k] =
              [pc |-> "done", sid |-> sid, result |-> res]]
        /\ procs' = IF res = "ok" THEN Append(procs, NewProcess(sid)) ELSE procs
        /\ processes' = IF res = "ok"
                        THEN [processes EXCEPT ![sid] = Len(procs) + 1]
                        ELSE processes
    /\ UNCHANGED <<sessions, session_users, now, creates, setups, ends, sends,
                   envVars, cmMu, stops,
                   cmds, stopAll,
                   continues,
                   credVars, lookups, gitVars, ctxDone>>

\* claude.go 718-828, called on an existing stream manager or, as
\* manager.go 120 does on every setup run, on one just constructed.
CSMStartStreamingSession(k) ==
    /\ NextSlot(starts, k)
    /\ \E sid \in SupervisedIDs, launched \in BOOLEAN,
          mgr \in 1..(Len(csmSessions) + 1) :
        LET registry == IF mgr > Len(csmSessions) THEN {} ELSE csmSessions[mgr]
            res == StartStreamingSession(registry, sid, launched)
            after == IF res = "started" THEN registry \cup {sid} ELSE registry IN
        /\ starts' = [starts EXCEPT ![k] =
              [pc |-> "done", sid |-> sid, result |-> res]]
        /\ csmSessions' = IF mgr > Len(csmSessions)
                          THEN Append(csmSessions, after)
                          ELSE [csmSessions EXCEPT ![mgr] = after]
        /\ streamProcs' = IF res = "started"
                          THEN Append(streamProcs, NewStreamProc(sid, mgr))
                          ELSE streamProcs
    /\ UNCHANGED <<sessions, session_users, now, creates, setups, ends, sends,
                   workdirs, results, processes, procs, cmMu, stops,
                   cmds, stopAll,
                   continues,
                   credVars, lookups, gitVars, ctxDone>>

\* The supervised process exits by itself, cleanly or not.
ProcExit(p) ==
    /\ p \in DOMAIN procs
    /\ procs[p].alive
    /\ \E err \in BOOLEAN :
        procs' = [procs EXCEPT ![p].alive = FALSE, ![p].exitErr = err]
    /\ UNCHANGED <<sessions, session_users, now, creates, setups, ends, sends,
                   envVars, processes, cmMu, starts, stops,
                   cmds, stopAll,
                   continues,
                   credVars, lookups, gitVars, ctxDone>>

ExitStatusStopped(status, exitErr) ==
    IF status # "running" THEN status ELSE "stopped"

\* claude.go 340-349: the status is changed only when still running, to
\* error when Wait returned an error and to stopped otherwise.
ExitStatus(status, exitErr) ==
    IF status # "running" THEN status
    ELSE IF exitErr THEN "error" ELSE "stopped"

\* claude.go 337-359.
WaitForExit(p) ==
    /\ p \in DOMAIN procs
    /\ ~procs[p].alive
    /\ ~procs[p].waited
    /\ procs' = [procs EXCEPT
          ![p].waited = TRUE,
          ![p].Status = ExitStatus(@, procs[p].exitErr)]
    /\ UNCHANGED <<sessions, session_users, now, creates, setups, ends, sends,
                   envVars, processes, cmMu, starts, stops,
                   cmds, stopAll,
                   continues,
                   credVars, lookups, gitVars, ctxDone>>

IdleStop == [pc |-> "idle", sid |-> 0, proc |-> 0, result |-> "none"]

\* claude.go 158-171 and 235-250: the lock is taken, the entry looked up and
\* deleted, and Stop entered; Stop returns at once on a stopped process.
StopSessionBegin(k) ==
    /\ NextSlot(stops, k)
    /\ cmMu = 0
    /\ \E sid \in SupervisedIDs :
        LET p == processes[sid] IN
        IF p = 0
        THEN /\ stops' = [stops EXCEPT ![k] =
                   [pc |-> "done", sid |-> sid, proc |-> 0,
                    result |-> "SessionNotFound"]]
             /\ UNCHANGED <<processes, procs, cmMu>>
        ELSE /\ processes' = Unregister(processes, sid)
             /\ IF procs[p].Status = "stopped"
                THEN /\ stops' = [stops EXCEPT ![k] =
                          [pc |-> "done", sid |-> sid, proc |-> p,
                           result |-> "ok"]]
                     /\ UNCHANGED <<procs, cmMu>>
                ELSE /\ stops' = [stops EXCEPT ![k] =
                          [pc |-> "wait", sid |-> sid, proc |-> p,
                           result |-> "none"]]
                     /\ procs' = [procs EXCEPT ![p] = Stopping(@)]
                     /\ cmMu' = k
    /\ UNCHANGED <<sessions, session_users, now, creates, setups, ends, sends,
                   envVars, starts,
                   cmds, stopAll,
                   continues,
                   credVars, lookups, gitVars, ctxDone>>

\* claude.go 252-280 and 170-171: the process is gone, Stop returns nil and
\* the lock is released.
StopSessionFinish(k) ==
    /\ stops[k].pc = "wait"
    /\ procs' = [procs EXCEPT ![stops[k].proc] = Stopped(@)]
    /\ stops' = [stops EXCEPT ![k].pc = "done", ![k].result = "ok"]
    /\ cmMu' = 0
    /\ UNCHANGED <<sessions, session_users, now, creates, setups, ends, sends,
                   envVars, processes, starts,
                   cmds, stopAll,
                   continues,
                   credVars, lookups, gitVars, ctxDone>>

\* The caller of a send or stop call in flight cancels the context it passed.
CtxCancel ==
    /\ \E c \in ({"send"} \X (1..MaxCmds)) \cup ({"stop"} \X (1..MaxStops)) :
          /\ c \notin ctxDone
          /\ IF c[1] = "send" THEN cmds[c[2]].pc \in {"write", "read"}
                              ELSE stops[c[2]].pc = "wait"
          /\ ctxDone' = ctxDone \cup {c}
    /\ UNCHANGED <<sessions, session_users, now, creates, setups, ends, sends,
                   envVars, supVars, continues, credVars, lookups, gitVars>>

\* got: the call whose command the response handed to this call answers;
\* old: the responses that lay in OutputChan when this call wrote its command.
IdleCmd == [pc |-> "idle", sid |-> 0, proc |-> 0, result |-> "none", got |-> 0,
            old |-> {}]

\* claude.go 148-155 and 206-214: the process is looked up under the read
\* lock of cm.mu and its status read under the read lock of cp.mu; both are
\* released before the command is written.
CMSendBegin(k) ==
    /\ NextSlot(cmds, k)
    /\ cmMu = 0
    /\ \E sid \in SupervisedIDs :
        LET res == SendCommand(processes, procs, sid) IN
        cmds' = [cmds EXCEPT ![k] =
            IF res = "ok"
            THEN [@ EXCEPT !.pc = "write", !.sid = sid, !.proc = processes[sid]]
            ELSE [@ EXCEPT !.pc = "done", !.sid = sid, !.result = res]]
    /\ UNCHANGED <<sessions, session_users, now, creates, setups, ends, sends,
                   envVars, processes, procs, cmMu, starts, stops, stopAll,
                   continues,
                   credVars, lookups, gitVars, ctxDone>>

\* claude.go 216-220: the command goes down the input stream, which Stop may
\* have closed by now.
CMSendWrite(k) ==
    /\ cmds[k].pc = "write"
    /\ LET p == cmds[k].proc IN
       IF procs[p].Status \in {"stopping", "stopped"} \/ ~procs[p].alive
       THEN /\ cmds' = [cmds EXCEPT ![k].pc = "done", ![k].result = "error:write"]
            /\ UNCHANGED procs
       ELSE /\ cmds' = [cmds EXCEPT
                   ![k].pc = "read",
                   ![k].old = {procs[p].OutputChan[n] :
                                  n \in DOMAIN procs[p].OutputChan}]
            /\ procs' = [procs EXCEPT ![p].Stdin = Append(@, k)]
    /\ UNCHANGED <<sessions, session_users, now, creates, setups, ends, sends,
                   envVars, processes, cmMu, starts, stops, stopAll,
                   continues,
                   credVars, lookups, gitVars, ctxDone>>

\* The assistant answers the next command on its input stream; readOutput
\* (claude.go 297-315) forwards the line to OutputChan.
ProcRespond(p) ==
    /\ p \in DOMAIN procs
    /\ procs[p].alive
    /\ procs[p].Stdin # <<>>
    /\ procs' = [procs EXCEPT ![p].Stdin = Tail(@),
                              ![p].OutputChan = Append(@, Head(procs[p].Stdin))]
    /\ UNCHANGED <<sessions, session_users, now, creates, setups, ends, sends,
                   envVars, processes, cmMu, starts, stops, cmds, stopAll,
                   continues,
                   credVars, lookups, gitVars, ctxDone>>

\* claude.go 223-225: the call takes the next line of OutputChan.
CMSendRead(k) ==
    /\ cmds[k].pc = "read"
    /\ LET p == cmds[k].proc IN
       /\ procs[p].OutputChan # <<>>
       /\ cmds' = [cmds EXCEPT ![k].pc = "done", ![k].result = "ok",
                               ![k].got = Head(procs[p].OutputChan)]
       /\ procs' = [procs EXCEPT ![p].OutputChan = Tail(@)]
    /\ UNCHANGED <<sessions, session_users, now, creates, setups, ends, sends,
                   envVars, processes, cmMu, starts, stops, stopAll,
                   continues,
                   credVars, lookups, gitVars, ctxDone>>

\* claude.go 228-231: the context ends or thirty seconds pass without a
\* line.
CMSendTimeout(k) ==
    /\ cmds[k].pc = "read"
    /\ procs[cmds[k].proc].OutputChan = <<>>
    /\ cmds' = [cmds EXCEPT ![k].pc = "done",
                            ![k].result = IF <<"send", k>> \in ctxDone
                                          THEN "ctx.Err" ELSE "timeout"]
    /\ UNCHANGED <<sessions, session_users, now, creates, setups, ends, sends,
                   envVars, processes, procs, cmMu, starts, stops, stopAll,
                   continues,
                   credVars, lookups, gitVars, ctxDone>>

\* tracked: the processes in the registry when the call took the lock;
\* todo: those the loop has not reached yet; errors: those whose Stop
\* returned an error.
IdleStopAll == [pc |-> "idle", tracked |-> {}, todo |-> {}, errors |-> {},
                result |-> "none"]

\* The value cm.mu's holder has while StopAllSessions runs.
StopAllHolder == MaxStops + 1

Tracked(registry) == {registry[sid] : sid \in DOMAIN registry} \ {0}

\* claude.go 235-280: Stop's return value; every return statement is
\* "return nil".
StopReturns(proc) == "nil"

ClearNothing(registry) == registry

\* claude.go 186-187: cm.processes = make(map[string]*ClaudeProcess).
ClearRegistry(registry) == [sid \in DOMAIN registry |-> 0]

\* claude.go 174-176: the write lock is taken for the whole call.
StopAllBegin ==
    /\ stopAll.pc = "idle"
    /\ cmMu = 0
    /\ cmMu' = StopAllHolder
    /\ stopAll' = [stopAll EXCEPT !.pc = "loop",
                                  !.tracked = Tracked(processes),
                                  !.todo = Tracked(processes)]
    /\ UNCHANGED <<sessions, session_users, now, creates, setups, ends, sends,
                   envVars, processes, procs, starts, stops, cmds,
                   continues,
                   credVars, lookups, gitVars, ctxDone>>

\* claude.go 180-184: one iteration of the loop, in the map's order; Stop
\* returns at once on a stopped process and otherwise once the process has
\* exited and been reaped.
StopAllStop ==
    /\ stopAll.pc = "loop"
    /\ \E p \in stopAll.todo :
        /\ procs' = [procs EXCEPT ![p] =
              IF @.Status = "stopped" THEN @ ELSE Stopped(Stopping(@))]
        /\ stopAll' = [stopAll EXCEPT
              !.todo = @ \ {p},
              !.errors = IF StopReturns(procs[p]) = "nil" THEN @ ELSE @ \cup {p}]
    /\ UNCHANGED <<sessions, session_users, now, creates, setups, ends, sends,
                   envVars, processes, cmMu, starts, stops, cmds,
                   continues,
                   credVars, lookups, gitVars, ctxDone>>

\* claude.go 186-193: the registry is replaced by an empty one, the errors
\* collected are returned, the lock is released.
StopAllReturn ==
    /\ stopAll.pc = "loop"
    /\ stopAll.todo = {}
    /\ processes' = ClearRegistry(processes)
    /\ cmMu' = 0
    /\ stopAll' = [stopAll EXCEPT
          !.pc = "done",
          !.result = IF stopAll.errors = {} THEN "nil" ELSE "errors"]
    /\ UNCHANGED <<sessions, session_users, now, creates, setups, ends, sends,
                   envVars, procs, starts, stops, cmds,
                   continues,
                   credVars, lookups, gitVars, ctxDone>>

\* ------------------------------------------------------------- credentials
CredUsers == {1}
CredTypes == {"anthropic", "github"}
CredValues == {"value1", "value2"}

IdleStore == [pc |-> "idle", user |-> 0, type |-> "", value |-> "",
              result |-> "none"]

\* Rows of the credentials table for (userID, credType).
CredRows(rows, userID, credType) ==
    {r \in rows : r.user = userID /\ r.type = credType}

\* SELECT credential_value ... WHERE user_id = ? AND credential_type = ?:
\* the value of a matching row, "NoCredentials" for sql.ErrNoRows.
GetCredential(rows, userID, credType) ==
    IF CredRows(rows, userID, credType) = {} THEN "NoCredentials"
    ELSE (CHOOSE r \in CredRows(rows, userID, credType) : TRUE).value

\* UNIQUE(user_id, credential_type): TRUE when a row for the pair cannot be
\* inserted.
CredUniqueViolation(rows, userID, credType) ==
    CredRows(rows, userID, credType) # {}

\* part_005 60-78: the UPDATE statement of StoreCredential; the call returns
\* when a row was affected, and goes on to the INSERT otherwise.
StoreUpdate(k) ==
    /\ stores[k].pc = "idle"
    /\ \A j \in 1..(k - 1) : stores[j].pc # "idle"
    /\ \E userID \in CredUsers, credType \in CredTypes, value \in CredValues :
        LET hit == CredRows(credentials, userID, credType) IN
        /\ credentials' = (credentials \ hit)
                \cup {[r EXCEPT !.value = value] : r \in hit}
        /\ stores' = [stores EXCEPT ![k] =
              [pc |-> IF hit = {} THEN "insert" ELSE "done", user |-> userID,
               type |-> credType, value |-> value,
               result |-> IF hit = {} THEN "none" ELSE "ok"]]
    /\ UNCHANGED <<sessions, session_users, now, creates, setups, ends, sends,
                   envVars, supVars, continues, lookups, gitVars, ctxDone>>

\* part_005 80-91: the INSERT statement of StoreCredential.
StoreInsert(k) ==
    /\ stores[k].pc = "insert"
    /\ LET s == stores[k] IN
       IF CredUniqueViolation(credentials, s.user, s.type)
       THEN /\ stores' = [stores EXCEPT ![k].pc = "done",
                                        ![k].result = "error:insert"]
            /\ UNCHANGED credentials
       ELSE /\ credentials' = credentials \cup
                  {[user |-> s.user, type |-> s.type, value |-> s.value]}
            /\ stores' = [stores EXCEPT ![k].pc = "done", ![k].result = "ok"]
    /\ UNCHANGED <<sessions, session_users, now, creates, setups, ends, sends,
                   envVars, supVars, continues, lookups, gitVars, ctxDone>>

\* ------------------------------------------------------------ session lookups
IdleLookup == [kind |-> "none", id |-> 0, channel |-> "", thread |-> "",
               session |-> 0, err |-> "none"]

\* The session ids a caller may ask for: those the program hands out and one
\* it never does.
LookupIDs == SessionIDs \cup {0}

NoLookupError(rows, sessionID) == "nil"

\* part_005 168-173: the error GetSession returns, ErrCodeSessionNotFound for
\* sql.ErrNoRows.
GetSessionErr(rows, sessionID) ==
    IF GetSession(rows, sessionID) = 0 THEN "SessionNotFound" ELSE "nil"

\* part_005 196-201: the error GetActiveSessionForChannel returns; sql.ErrNoRows
\* is answered with nil, nil.
GetActiveSessionForChannelErr(rows, workspaceID, channelID, threadTS) == "nil"

\* manager.go 164-166: Manager.GetSession.
LookupByID(k) ==
    /\ lookups[k].kind = "none"
    /\ \A j \in 1..(k - 1) : lookups[j].kind # "none"
    /\ \E sessionID \in LookupIDs :
        lookups' = [lookups EXCEPT ![k] =
            [IdleLookup EXCEPT !.kind = "id", !.id = sessionID,
                               !.session = GetSession(sessions, sessionID),
                               !.err = GetSessionErr(sessions, sessionID)]]
    /\ UNCHANGED <<sessions, session_users, now, creates, setups, ends, sends,
                   envVars, supVars, continues, credVars, gitVars, ctxDone>>

\* manager.go 169-171: Manager.GetActiveSessionForChannel.
LookupByScope(k) ==
    /\ lookups[k].kind = "none"
    /\ \A j \in 1..(k - 1) : lookups[j].kind # "none"
    /\ \E channelID \in Channels, threadTS \in Threads :
        lookups' = [lookups EXCEPT ![k] =
            [IdleLookup EXCEPT
                !.kind = "scope", !.channel = channelID, !.thread = threadTS,
                !.session = GetActiveSessionForChannel(sessions, WorkspaceID,
                                                       channelID, threadTS),
                !.err = GetActiveSessionForChannelErr(sessions, WorkspaceID,
                                                      channelID, threadTS)]]
    /\ UNCHANGED <<sessions, session_users, now, creates, setups, ends, sends,
                   envVars, supVars, continues, credVars, gitVars, ctxDone>>

\* ------------------------------------------------- GoGitManager (repo setup)
\* Repository URLs, as the parts between the slashes and whether ".git" ends
\* them: github.com/a/app.git, github.com/b/app.git, github.com/a/lib.
RepoURLs ==
    {[parts |-> <<"github.com", "a", "app">>, git |-> TRUE],
     [parts |-> <<"github.com", "b", "app">>, git |-> TRUE],
     [parts |-> <<"github.com", "a", "lib">>, git |-> FALSE]}

Commitishes == {"main", "v1"}
GitFeatures == {"f1", "f2"}

\* git_manager_new.go 183-195: the ".git" suffix is trimmed and the last part
\* of the path is the name.
extractRepoName(repoURL) == repoURL.parts[Len(repoURL.parts)]

RepoNames == {extractRepoName(u) : u \in RepoURLs}

NoURL == [parts |-> <<>>, git |-> FALSE]
NoCommit == [repo |-> NoURL, rev |-> ""]
NoRepo == [exists |-> FALSE, origin |-> NoURL, head |-> NoCommit,
           branches |-> {}]

\* repo.ResolveRevision: the commit the revision names in the repository the
\* clone was made from.
ResolveRevision(clone, fromCommitish) ==
    [repo |-> clone.origin, rev |-> fromCommitish]

IdleGit == [pc |-> "idle", repoURL |-> NoURL, fromCommitish |-> "",
            featureName |-> "", repoPath |-> "", hash |-> NoCommit,
            cloned |-> FALSE, result |-> "none"]

GitFailed(k, why) ==
    gitcalls' = [gitcalls EXCEPT ![k].pc = "done", ![k].result = why]

\* git_manager_new.go 36-60: the paths are computed, an existing worktree
\* directory turns the call away, and os.Stat(repoPath) picks clone or open.
GitBegin(k) ==
    /\ gitcalls[k].pc = "idle"
    /\ \A j \in 1..(k - 1) : gitcalls[j].pc # "idle"
    /\ \E repoURL \in RepoURLs, fromCommitish \in Commitishes,
          featureName \in GitFeatures :
        gitcalls' = [gitcalls EXCEPT ![k] =
            [IdleGit EXCEPT
                !.repoURL = repoURL, !.fromCommitish = fromCommitish,
                !.featureName = featureName,
                !.repoPath = extractRepoName(repoURL),
                !.pc = IF worktrees[featureName] # NoCommit THEN "done"
                       ELSE IF repos[extractRepoName(repoURL)].exists
                            THEN "open" ELSE "clone",
                !.result = IF worktrees[featureName] # NoCommit
                           THEN "error:worktree exists" ELSE "none"]]
    /\ UNCHANGED <<sessions, session_users, now, creates, setups, ends, sends,
                   envVars, supVars, continues, credVars, lookups, repos,
                   worktrees, ctxDone>>

\* git_manager_new.go 62-75: git.PlainClone into repoPath; it fails when a
\* repository is there by now.
GitClone(k) ==
    /\ gitcalls[k].pc = "clone"
    /\ LET c == gitcalls[k] IN
       IF repos[c.repoPath].exists
       THEN /\ GitFailed(k, "error:clone")
            /\ UNCHANGED repos
       ELSE /\ repos' = [repos EXCEPT ![c.repoPath] =
                  [exists |-> TRUE, origin |-> c.repoURL,
                   head |-> [repo |-> c.repoURL, rev |-> "main"],
                   branches |-> {}]]
            /\ gitcalls' = [gitcalls EXCEPT ![k].pc = "resolve",
                                            ![k].cloned = TRUE]
    /\ UNCHANGED <<sessions, session_users, now, creates, setups, ends, sends,
                   envVars, supVars, continues, credVars, lookups, worktrees, ctxDone>>

\* git_manager_new.go 76-103: git.PlainOpen(repoPath) and a fetch from the
\* clone's origin.
GitOpenFetch(k) ==
    /\ gitcalls[k].pc = "open"
    /\ gitcalls' = [gitcalls EXCEPT ![k].pc = "resolve"]
    /\ UNCHANGED <<sessions, session_users, now, creates, setups, ends, sends,
                   envVars, supVars, continues, credVars, lookups, repos,
                   worktrees, ctxDone>>

\* git_manager_new.go 105-130: an existing branch of the feature's name turns
\* the call away; the commit-ish is resolved in the clone.
GitResolve(k) ==
    /\ gitcalls[k].pc = "resolve"
    /\ LET c == gitcalls[k] IN
       IF c.featureName \in repos[c.repoPath].branches
       THEN GitFailed(k, "error:branch exists")
       ELSE gitcalls' = [gitcalls EXCEPT
                ![k].pc = "checkout",
                ![k].hash = ResolveRevision(repos[c.repoPath], c.fromCommitish)]
    /\ UNCHANGED <<sessions, session_users, now, creates, setups, ends, sends,
                   envVars, supVars, continues, credVars, lookups, repos,
                   worktrees, ctxDone>>

\* git_manager_new.go 137-166: the clone's own working tree is checked out at
\* the commit, the feature branch is created there and checked out.
GitCheckout(k) ==
    /\ gitcalls[k].pc = "checkout"
    /\ LET c == gitcalls[k] IN
       repos' = [repos EXCEPT ![c.repoPath].head = c.hash,
                              ![c.repoPath].branches = @ \cup {c.featureName}]
    /\ gitcalls' = [gitcalls EXCEPT ![k].pc = "copy"]
    /\ UNCHANGED <<sessions, session_users, now, creates, setups, ends, sends,
                   envVars, supVars, continues, credVars, lookups, worktrees, ctxDone>>

\* git_manager_new.go 197-240: what copyDir(src, dst) leaves in dst, the files
\* of src's working tree as they are when it runs.
copyDir(clone) == clone.head

\* git_manager_new.go 168-180: the worktree directory is made by copying the
\* clone's working tree.
GitCopy(k) ==
    /\ gitcalls[k].pc = "copy"
    /\ LET c == gitcalls[k] IN
       worktrees' = [worktrees EXCEPT ![c.featureName] = copyDir(repos[c.repoPath])]
    /\ gitcalls' = [gitcalls EXCEPT ![k].pc = "done", ![k].result = "ok"]
    /\ UNCHANGED <<sessions, session_users, now, creates, setups, ends, sends,
                   envVars, supVars, continues, credVars, lookups, repos, ctxDone>>

SetupSessionRepo(k) ==
    \/ GitBegin(k) \/ GitClone(k) \/ GitOpenFetch(k)
    \/ GitResolve(k) \/ GitCheckout(k) \/ GitCopy(k)

\* ---------------------------------------------------------------- the clock
Tick ==
    /\ now < MaxTime
    /\ now' = now + 1
    /\ UNCHANGED <<sessions, session_users, creates, setups, ends, sends, envVars,
                   supVars,
                   continues,
                   credVars, lookups, gitVars, ctxDone>>

Init ==
    /\ sessions = <<>>
    /\ session_users = {}
    /\ now = 0
    /\ creates = [c \in 1..MaxCreates |-> IdleCreate]
    /\ setups = [u \in SessionIDs |-> IdleSetup]
    /\ ends = [e \in 1..MaxEnds |-> IdleEnd]
    /\ sends = [m \in 1..MaxSends |-> IdleSend]
    /\ workdirs = {}
    /\ csmSessions = <<>>
    /\ streamProcs = <<>>
    /\ processes = [sid \in SessionIDs |-> 0]
    /\ results = <<>>
    /\ procs = <<>>
    /\ cmMu = 0
    /\ starts = [k \in 1..MaxStarts |-> IdleStart]
    /\ stops = [k \in 1..MaxStops |-> IdleStop]
    /\ cmds = [k \in 1..MaxCmds |-> IdleCmd]
    /\ stopAll = IdleStopAll
    /\ continues = [k \in 1..MaxContinues |-> IdleContinue]
    /\ credentials = {}
    /\ stores = [k \in 1..MaxStores |-> IdleStore]
    /\ lookups = [k \in 1..MaxLookups |-> IdleLookup]
    /\ repos = [n \in RepoNames |-> NoRepo]
    /\ worktrees = [f \in GitFeatures |-> NoCommit]
    /\ gitcalls = [k \in 1..MaxGitCalls |-> IdleGit]
    /\ ctxDone = {}

CreateOps(c, reqs) ==
    CreateCheck(c, reqs) \/ CreateInsert(c) \/ CreateAddOwner(c)

SetupOps(u) ==
    \/ LaunchSetup(u) \/ SetupRepo(u) \/ SetupPrompt(u)
    \/ SetupStart(u) \/ SetupMarkActive(u) \/ SetupPanic(u)

EndOps(e) ==
    \/ EndGet(e) \/ EndMarkEnding(e) \/ EndStopProcess(e)
    \/ EndCommitAndPush(e) \/ EndCleanup(e) \/ EndMarkEnded(e)

\* Sessions are created, set up, rebound and stopped by their users.
Next ==
    \/ \E c \in 1..MaxCreates : CreateOps(c, Requests) \/ SetupOps(c)
    \/ ContinueSession
    \/ EndUserStop(1) \/ EndOps(1)

Spec == Init /\ [][Next]_vars

\* One session is created and set up; the user, the idle sweep and shutdown
\* end it concurrently.
EndNext ==
    \/ CreateOps(1, {FirstRequest}) \/ SetupOps(1)
    \/ \E e \in 1..MaxEnds : EndUserStop(e) \/ SweepList(e) \/ ShutdownList(e)
    \/ \E e \in 1..MaxEnds : EndOps(e)
    \/ Tick

EndSpec == Init /\ [][EndNext]_vars

\* One session with callers that end it; every EndSession call, a goroutine
\* of its own, keeps running.
TeardownNext ==
    \/ CreateOps(1, {FirstRequest}) \/ SetupOps(1)
    \/ \E e \in 1..MaxEnds : EndUserStop(e) \/ ShutdownList(e)
    \/ \E e \in 1..MaxEnds : EndOps(e)

TeardownSpec ==
    /\ Init
    /\ [][TeardownNext]_vars
    /\ \A e \in 1..MaxEnds : WF_vars(EndOps(e))

\* One session, messages sent to it while it is set up and ended.
SendNext ==
    \/ CreateOps(1, {FirstRequest}) \/ SetupOps(1)
    \/ EndUserStop(1) \/ EndOps(1)
    \/ \E m \in 1..MaxSends : SendGet(m) \/ SendDeliver(m)

SendSpec == Init /\ [][SendNext]_vars

\* One session whose assistant reports costs.
CostNext ==
    \/ CreateOps(1, {FirstRequest}) \/ SetupOps(1)
    \/ EndUserStop(1) \/ EndOps(1)
    \/ \E q \in 1..MaxCreates : ResultMessage(q) \/ StreamExit(q)

CostSpec == Init /\ [][CostNext]_vars

\* createSession called with requests of every kind.
ValidateNext ==
    \E c \in 1..MaxCreates : CreateOps(c, Requests \cup OtherRequests) \/ SetupOps(c)

ValidateSpec == Init /\ [][ValidateNext]_vars

\* Next with every setup goroutine scheduled for as long as it has a step to
\* take.
SetupSpec ==
    Init /\ [][Next]_vars /\ \A u \in 1..MaxCreates : WF_vars(SetupOps(u))

\* The supervisors' own interfaces, called concurrently.
SupNext ==
    \/ \E k \in 1..MaxStarts : CMStartSession(k) \/ CSMStartStreamingSession(k)
    \/ \E k \in 1..MaxStops : StopSessionBegin(k) \/ StopSessionFinish(k)
    \/ \E p \in 1..MaxStarts : ProcExit(p) \/ WaitForExit(p) \/ StreamExit(p)
    \/ StopAllBegin \/ StopAllStop \/ StopAllReturn

SupSpec == Init /\ [][SupNext]_vars

\* One session and the continue commands issued for it.
ContinueNext ==
    \/ CreateOps(1, {FirstRequest}) \/ SetupOps(1)
    \/ \E k \in 1..MaxContinues : handleContinueCommand(k)

ContinueSpec == Init /\ [][ContinueNext]_vars

\* One session and the stop commands issued in its channel.
StopNext ==
    \/ CreateOps(1, {FirstRequest}) \/ SetupOps(1)
    \/ \E e \in 1..MaxEnds : handleStopCommand(e) \/ EndOps(e)

StopSpec == Init /\ [][StopNext]_vars

\* One supervised process and the send calls made on it.
CmdNext ==
    \/ CMStartSession(1)
    \/ \E k \in 1..MaxCmds :
          CMSendBegin(k) \/ CMSendWrite(k) \/ CMSendRead(k) \/ CMSendTimeout(k)
    \/ ProcRespond(1) \/ ProcExit(1) \/ WaitForExit(1)
    \/ StopSessionBegin(1) \/ StopSessionFinish(1)

CmdSpec == Init /\ [][CmdNext]_vars

\* Concurrent StoreCredential calls.
CredNext == \E k \in 1..MaxStores : StoreUpdate(k) \/ StoreInsert(k)

CredSpec == Init /\ [][CredNext]_vars

\* One session and lookups of it, by id and by scope.
LookupNext ==
    \/ CreateOps(1, {FirstRequest}) \/ SetupOps(1)
    \/ \E k \in 1..MaxLookups : LookupByID(k) \/ LookupByScope(k)

LookupSpec == Init /\ [][LookupNext]_vars

\* Concurrent SetupSessionRepo calls.
GitNext == \E k \in 1..MaxGitCalls : SetupSessionRepo(k)

GitSpec == Init /\ [][GitNext]_vars

\* One session and the output lines of its assistant, read by either loop.
OutputNext ==
    \/ CreateOps(1, {FirstRequest}) \/ SetupOps(1)
    \/ \E q \in 1..MaxCreates :
          ResultMessage(q) \/ StdoutLine(q) \/ StreamExit(q)

OutputSpec == Init /\ [][OutputNext]_vars

\* One supervised process, the send and stop calls on it, and their callers
\* cancelling.
CancelNext == CmdNext \/ CtxCancel

CancelSpec == Init /\ [][CancelNext]_vars

\* One session, and EndSession called for its id and for an id no session has.
UserEndNext ==
    \/ CreateOps(1, {FirstRequest}) \/ SetupOps(1)
    \/ \E e \in 1..MaxEnds : EndUserStop(e) \/ EndOps(e)

UserEndSpec == Init /\ [][UserEndNext]_vars

\* One supervised process and send calls made on it one after the other, a
\* call starting only when the others have returned.
CMSendBeginAlone(k) ==
    /\ \A j \in 1..MaxCmds \ {k} : cmds[j].pc \in {"idle", "done"}
    /\ CMSendBegin(k)

SeqCmdNext ==
    \/ CMStartSession(1)
    \/ \E k \in 1..MaxCmds :
          CMSendBeginAlone(k) \/ CMSendWrite(k) \/ CMSendRead(k)
              \/ CMSendTimeout(k)
    \/ ProcRespond(1) \/ ProcExit(1) \/ WaitForExit(1)

SeqCmdSpec == Init /\ [][SeqCmdNext]_vars

\* One session with a process registered for its id by a StartSession call
\* on the supervisor, messages sent to it, the clock and the idle sweep.
TrafficNext ==
    \/ CreateOps(1, {FirstRequest}) \/ SetupOps(1)
    \/ CMStartSession(1)
    \/ \E m \in 1..MaxSends : SendGet(m) \/ SendDeliver(m)
    \/ SweepList(1) \/ EndOps(1)
    \/ Tick

TrafficSpec == Init /\ [][TrafficNext]_vars

\* ------------------------------------------------------------------- claims
Edges ==
    {<<"starting", "active">>, <<"starting", "error">>, <<"active", "ending">>,
     <<"ending", "ended">>, <<"active", "error">>, <<"ending", "error">>}

\* C1: every change of a session's persisted status follows an edge of the
\* lifecycle graph; ended and error, being the source of no edge, never
\* change.
C1StatusFollowsEdges ==
    [][\A i \in DOMAIN sessions :
          sessions'[i].status # sessions[i].status
          => <<sessions[i].status, sessions'[i].status>> \in Edges]_vars

SameKey(r1, r2) ==
    /\ r1.slack_workspace_id = r2.slack_workspace_id
    /\ r1.slack_channel_id = r2.slack_channel_id
    /\ r1.slack_thread_ts = r2.slack_thread_ts

\* C2: for every (workspace, channel, thread) key at most one row has
\* status starting or active.
C2OneLiveSessionPerKey ==
    \A i, j \in DOMAIN sessions :
        /\ i # j
        /\ sessions[i].status \in {"starting", "active"}
        /\ sessions[j].status \in {"starting", "active"}
        => ~SameKey(sessions[i], sessions[j])

\* A create for the thread of a live session, under another name, has failed.
C2Witness ==
    \E i \in DOMAIN sessions, c \in 1..MaxCreates :
        /\ sessions[i].status \in {"starting", "active"}
        /\ creates[c].pc = "done"
        /\ creates[c].result = "StoreFailed"
        /\ creates[c].req.feature # sessions[i].branch_name
        /\ creates[c].req.channel = sessions[i].slack_channel_id
        /\ creates[c].req.thread = sessions[i].slack_thread_ts

\* C3: a session an endSession call has found active, and a session in
\* status ending, always gets to status ended.
C3ReachesEnded ==
    \A sid \in SessionIDs :
        /\ (\E e \in 1..MaxEnds : ends[e].pc = "ending" /\ ends[e].sid = sid)
              ~> (StatusOf(sid) = "ended")
        /\ (StatusOf(sid) = "ending") ~> (StatusOf(sid) = "ended")

\* A teardown in which all three steps failed has ended the session.
C3Witness ==
    \E e \in 1..MaxEnds :
        /\ ends[e].pc = "done"
        /\ ends[e].result = "ok"
        /\ ends[e].failed = {"stop", "commit", "cleanup"}
        /\ StatusOf(1) = "ended"

RowsNamed(branchName) ==
    {i \in DOMAIN sessions : sessions[i].branch_name = branchName}

\* C4: of two createSession calls with one feature name, one succeeds and
\* the other fails with SessionExists, and one row carries the name.
C4OneWinnerOtherSessionExists ==
    \A c1, c2 \in 1..MaxCreates :
        /\ c1 # c2
        /\ creates[c1].pc = "done"
        /\ creates[c2].pc = "done"
        /\ creates[c1].req.feature = creates[c2].req.feature
        => /\ {creates[c1].result, creates[c2].result} = {"ok", "SessionExists"}
           /\ Cardinality(RowsNamed(creates[c1].req.feature)) = 1

\* C5: no two rows carry one branch name, whatever their status, and a
\* createSession for a name some row carries is rejected with SessionExists
\* without adding a row.
C5BranchNameUnique ==
    /\ [](\A i, j \in DOMAIN sessions :
            i # j => sessions[i].branch_name # sessions[j].branch_name)
    /\ [][\A c \in 1..MaxCreates :
            /\ creates[c].pc = "idle"
            /\ creates'[c].pc # "idle"
            /\ RowsNamed(creates'[c].req.feature) # {}
            => /\ creates'[c].pc = "done"
               /\ creates'[c].result = "SessionExists"
               /\ sessions' = sessions]_vars

\* The name of an ended session has been refused.
C5Witness ==
    \E c \in 1..MaxCreates, i \in DOMAIN sessions :
        /\ creates[c].pc = "done"
        /\ creates[c].result = "SessionExists"
        /\ sessions[i].branch_name = creates[c].req.feature
        /\ sessions[i].status = "ended"
        /\ Len(sessions) = 1

InQueue(queue, sessionID) == \E n \in DOMAIN queue : queue[n] = sessionID

Stale(row) == now - row.updated_at > IdleTimeout

\* The sweep caller e reads the listing in this step.
SweepLists(e) == ends[e].pc = "idle" /\ ends'[e].origin = "sweep"

\* The EndSession call of sweep caller e returns in this step.
SweepReturns(e) ==
    /\ ends[e].origin = "sweep"
    /\ ends[e].queue # <<>>
    /\ Len(ends'[e].queue) < Len(ends[e].queue)

NotActive == {"starting", "ending", "ended", "error"}

\* C7: a send that found the session in a status other than active, at its
\* status check or when it called the supervisor, has failed with
\* ClaudeUnavailable or SessionNotFound and delivered nothing.
C7NeverDelivered ==
    \A m \in 1..MaxSends :
        /\ sends[m].pc = "done"
        /\ (sends[m].seen \in NotActive \/ sends[m].at \in NotActive)
        => /\ sends[m].result \in {"ClaudeUnavailable", "SessionNotFound"}
           /\ ~sends[m].delivered

\* The status changed from active between the check and the delivery.
C7Witness ==
    \E m \in 1..MaxSends :
        /\ sends[m].pc = "done"
        /\ sends[m].seen = "active"
        /\ sends[m].at = "ending"
        /\ sends[m].result = "SessionNotFound"

LiveProcs(sessionID) ==
    {p \in DOMAIN procs : procs[p].sid = sessionID /\ procs[p].alive}

LiveStreamProcs(sessionID) ==
    {q \in DOMAIN streamProcs :
        streamProcs[q].sid = sessionID /\ streamProcs[q].alive}

\* C8: a start call either launches or fails with SessionExists (or, the
\* launch itself failing, with a start error), and neither supervisor has
\* two live subprocesses for one session id.
C8OneLaunchPerSession ==
    /\ \A k \in 1..MaxStarts :
          starts[k].pc = "done"
          => starts[k].result \in {"ok", "started", "SessionExists", "error:start"}
    /\ \A sid \in SessionIDs :
          /\ Cardinality(LiveProcs(sid)) <= 1
          /\ Cardinality(LiveStreamProcs(sid)) <= 1

\* C9: a process is terminated at most once and its done channel closed at
\* most once, a stop call returns success or SessionNotFound, no two stop
\* calls release the same process, and a process a stop call has released
\* is no longer registered.
C9StopIdempotent ==
    /\ \A p \in DOMAIN procs : procs[p].terminated <= 1 /\ procs[p].closed <= 1
    /\ \A k \in 1..MaxStops :
          stops[k].pc = "done"
          => /\ stops[k].result \in {"ok", "SessionNotFound"}
             /\ stops[k].proc # 0 => processes[stops[k].sid] # stops[k].proc
    /\ \A k1, k2 \in 1..MaxStops :
          k1 # k2 /\ stops[k1].proc # 0 => stops[k1].proc # stops[k2].proc

\* Two stop calls for one session id: one terminated the process, the other
\* found nothing registered.
C9Witness ==
    \E k1, k2 \in 1..MaxStops :
        /\ stops[k1].pc = "done" /\ stops[k2].pc = "done"
        /\ stops[k1].sid = stops[k2].sid
        /\ stops[k1].result = "ok"
        /\ stops[k1].proc # 0
        /\ procs[stops[k1].proc].terminated = 1
        /\ stops[k2].result = "SessionNotFound"
        /\ Len(procs) = 1

RECURSIVE SumCosts(_, _)
SumCosts(msgs, sessionID) ==
    IF msgs = <<>> THEN 0
    ELSE (IF Head(msgs).sid = sessionID THEN Head(msgs).cost ELSE 0)
         + SumCosts(Tail(msgs), sessionID)

\* C10: the stored running cost of a session is the sum of the costs its
\* assistant's result messages reported.
C10CostsAccumulate ==
    \A i \in DOMAIN sessions :
        sessions[i].running_cost = SumCosts(results, sessions[i].session_id)

\* C11: the stored running cost of a session never becomes smaller than a
\* value it held before.
C11CostNeverDecreases ==
    [][\A i \in DOMAIN sessions :
          sessions'[i].running_cost >= sessions[i].running_cost]_vars

Owners(id) == {su \in session_users : su.session = id /\ su.role = "owner"}

\* C12: every persisted session has exactly one owner membership row, in
\* every state another request can observe.
C12ExactlyOneOwner ==
    \A i \in DOMAIN sessions : Cardinality(Owners(i)) = 1

\* C13: every run of setupSessionAsync terminates, with the session in
\* status active or error, so that no session stays in starting forever.
C13SetupTerminates ==
    \A u \in 1..MaxCreates :
        (setups[u].pc = "repo") ~>
            (setups[u].pc = "done" /\ StatusOf(u) \in {"active", "error"})

StepsThrough(step) ==
    CASE step = "repo" -> {"repo"}
      [] step = "prompt" -> {"repo", "prompt"}
      [] step = "start" -> {"repo", "prompt", "start"}

StreamProcsOf(sessionID) ==
    {q \in DOMAIN streamProcs : streamProcs[q].sid = sessionID}

\* C14: a failed step of setupSessionAsync marks the session error, is
\* reported through the progress callback and is the last step the run
\* takes; the session is marked active, and readiness reported, only after
\* all three steps succeeded; createSession's caller has its session either
\* way.
C14FailureStopsSetup ==
    \A u \in 1..MaxCreates :
        LET s == setups[u] IN
        /\ s.pc # "idle" => creates[u].result = "ok"
        /\ s.pc = "done" => s.report # "none"
        /\ s.report = "panic" => s.pc = "done" /\ StatusOf(u) = "error"
        /\ \A step \in StepsThrough("start") :
              s.report = "failed:" \o step =>
                  /\ s.pc = "done"
                  /\ s.ran = StepsThrough(step)
                  /\ StatusOf(u) = "error"
                  /\ step # "start" => StreamProcsOf(u) = {}
                  /\ step = "repo" => s.feature \notin workdirs
        /\ s.report = "ready" =>
              /\ s.ran = StepsThrough("start")
              /\ StatusOf(u) \notin {"starting", "error"}
        /\ StatusOf(u) \in {"active", "ending", "ended"} => s.report = "ready"

C14Witness ==
    \E u \in 1..MaxCreates :
        /\ setups[u].report = "failed:start"
        /\ setups[u].ran = StepsThrough("start")
        /\ setups[u].feature \in workdirs
        /\ StatusOf(u) = "error"
        /\ creates[u].result = "ok"

Rejections == {"InvalidCommand", "InvalidChannel"}

\* What the requirements on a request say, field by field.
Acceptable(req) ==
    /\ req.user # 0 /\ req.repo # "" /\ req.from # ""
    /\ req.model \in {"sonnet", "opus"}
    /\ req.feature \in {"feat-a", "feat-b", "feat.b"}
    /\ req.channel \notin {"", "general"}

\* C15: a request that fails validation is turned away in the same step,
\* and neither that step nor anything after it leaves a session row, a
\* membership row, a working directory or a process for the request; only
\* such requests are turned away with a validation error.
C15RejectionHasNoEffect ==
    [][\A c \in 1..MaxCreates :
         /\ (creates[c].pc = "idle" /\ creates'[c].pc # "idle") =>
               /\ ~Acceptable(creates'[c].req) <=> creates'[c].result \in Rejections
               /\ creates'[c].result \in Rejections =>
                     /\ creates'[c].pc = "done"
                     /\ UNCHANGED <<sessions, session_users, workdirs,
                                    csmSessions, streamProcs, processes, procs,
                                    setups>>
         /\ creates[c].result \in Rejections =>
               /\ creates'[c] = creates[c]
               /\ GetSession(sessions', c) = 0
               /\ setups'[c].pc = "idle"
               /\ StreamProcsOf(c)' = {}]_vars

C15Witness ==
    /\ \E c \in 1..MaxCreates :
          creates[c].result = "InvalidChannel" /\ creates[c].req.channel = "general"
    /\ \E c \in 1..MaxCreates :
          creates[c].result = "ok" /\ sessions # <<>>

\* C16: no two supervisor operations run at the same time against one
\* subprocess: no two send calls are both between writing their command and
\* reading their response, and no send call is there while a stop is under
\* way.
C16SupervisorCallsSerialized ==
    /\ \A k1, k2 \in 1..MaxCmds :
          (k1 # k2 /\ cmds[k1].pc = "read" /\ cmds[k2].pc = "read")
              => cmds[k1].proc # cmds[k2].proc
    /\ \A k \in 1..MaxCmds, j \in 1..MaxStops :
          (cmds[k].pc = "read" /\ stops[j].pc = "wait")
              => cmds[k].proc # stops[j].proc

\* C17: once shutdown has begun, every assistant process that was started
\* for a session and is still running is eventually stopped.
C17ShutdownStopsProcesses ==
    \A q \in 1..MaxCreates :
        (/\ \E e \in 1..MaxEnds : ends[e].origin = "shutdown"
         /\ q \in DOMAIN streamProcs
         /\ streamProcs[q].alive)
            ~> (q \in DOMAIN streamProcs /\ ~streamProcs[q].alive)

StopCalled(p) ==
    \/ \E j \in 1..MaxStops : stops[j].proc = p
    \/ p \in stopAll.tracked \ stopAll.todo

\* C19: a process that exits with an error while its status is running gets
\* status error, and the supervisor's status read for its session returns
\* error for as long as no stop has been called on it.
C19CrashStaysError ==
    [][\A p \in DOMAIN procs :
          /\ (procs[p].Status = "running" /\ ~procs[p].waited
                  /\ procs'[p].waited /\ procs[p].exitErr)
                => procs'[p].Status = "error"
          /\ (procs[p].Status = "error" /\ ~StopCalled(p)')
                => GetStatus(processes, procs, procs[p].sid)' = "error"
          /\ procs'[p].Status = "error"
                => (procs'[p].exitErr /\ procs'[p].waited)]_vars

C19Witness ==
    \E p \in DOMAIN procs :
        /\ procs[p].Status = "error"
        /\ procs[p].exitErr
        /\ GetStatus(processes, procs, procs[p].sid) = "error"
        /\ \E k \in 1..MaxStarts :
              /\ starts[k].sid = procs[p].sid
              /\ starts[k].result = "SessionExists"

\* C20: when stopAll returns the registry is empty, every process that was
\* in the registry has been stopped, and a nil result means that none of
\* them is left running.
C20StopAllClearsRegistry ==
    [][(stopAll.pc # "done" /\ stopAll'.pc = "done") =>
          /\ Tracked(processes') = {}
          /\ \A p \in Tracked(processes) :
                /\ p \in stopAll'.tracked
                /\ p \notin stopAll'.todo
                /\ procs'[p].Status = "stopped"
          /\ stopAll'.result = "nil" =>
                \A p \in Tracked(processes) : ~procs'[p].alive
          /\ stopAll'.result # "nil" <=> stopAll'.errors # {}]_vars

C20Witness ==
    /\ stopAll.pc = "done"
    /\ Cardinality(stopAll.tracked) = 2
    /\ \A p \in stopAll.tracked : procs[p].Status = "stopped" /\ ~procs[p].alive
    /\ \E p \in stopAll.tracked : procs[p].exitErr
    /\ Tracked(processes) = {}

\* The non-terminal sessions a user owns.
OwnedBy(user) ==
    {i \in DOMAIN sessions :
        /\ sessions[i].status \in NonTerminal
        /\ \E su \in Owners(i) : su.user = user}

C22ContinueRebinds ==
    [][\A k \in 1..MaxContinues :
          (/\ continues[k].pc = "idle"
           /\ continues'[k].result = "ok"
           /\ sessions[continues'[k].id].status = "active")
          => LET c == continues'[k] IN
             /\ GetActiveSessionForChannel(sessions', WorkspaceID, c.channel,
                                           c.thread) = c.id
             /\ (c.old.channel # c.channel \/ c.old.thread # c.thread)
                   => GetActiveSessionForChannel(sessions', WorkspaceID,
                                                 c.old.channel, c.old.thread)
                          # c.id]_vars

Members(id) == {su.user : su \in {m \in session_users : m.session = id}}

\* C23: a continue command from a user with no membership on the session
\* it names ends with Unauthorized and leaves every session's channel and
\* thread as they were; members are not turned away that way.
C23ContinueNeedsMembership ==
    [][\A k \in 1..MaxContinues :
          (continues[k].pc = "idle" /\ continues'[k].pc = "done"
               /\ continues'[k].id # 0)
          => /\ continues'[k].user \notin Members(continues'[k].id)
                   <=> continues'[k].result = "Unauthorized"
             /\ continues'[k].result = "Unauthorized" => sessions' = sessions]_vars

C23Witness ==
    \E k \in 1..MaxContinues :
        /\ continues[k].result = "Unauthorized"
        /\ continues[k].user \notin Members(continues[k].id)
        /\ Members(continues[k].id) # {}
        /\ sessions[continues[k].id].slack_thread_ts = continues[k].old.thread
        /\ continues[k].thread # continues[k].old.thread

\* C24: a stop command from a user who is not the owner of the session
\* bound to the command's channel and thread ends with Unauthorized, and
\* neither that step nor the command afterwards changes a session or runs a
\* teardown step; the owner is not turned away that way.
C24StopNeedsOwner ==
    [][\A e \in 1..MaxEnds :
          /\ (ends[e].pc = "idle" /\ ends'[e].origin = "stop"
                  /\ ends'[e].found # 0)
             => /\ (\A su \in Owners(ends'[e].found) : su.user # ends'[e].user)
                      <=> ends'[e].result = "Unauthorized"
                /\ ends'[e].result = "Unauthorized" =>
                      /\ ends'[e].pc = "done"
                      /\ sessions'[ends'[e].found].status = "active"
                      /\ UNCHANGED <<sessions, workdirs, streamProcs,
                                     processes, procs>>
          /\ ends[e].result = "Unauthorized" => ends'[e] = ends[e]]_vars

C24Witness ==
    \E e \in 1..MaxEnds :
        /\ ends[e].result = "Unauthorized"
        /\ ends[e].user = 2
        /\ sessions[ends[e].found].status = "active"
        /\ Owners(ends[e].found) # {}

\* C25: a session row has an end timestamp exactly when its status is
\* terminal (ended or error).
C25EndedAtIffTerminal ==
    \A i \in RowIds(sessions) :
        sessions[i].ended_at # NULL <=> sessions[i].status \in Terminal

\* C26: every StoreCredential call succeeds, and when it returns exactly one
\* credential exists for its (user, type), GetCredential gives the value it
\* stored, and the credentials of every other (user, type) are as they were;
\* this holds for concurrent calls too, two first stores of one (user, type)
\* included.
C26StoreIsUpsert ==
    [][\A k \in 1..MaxStores :
          (stores[k].pc # "done" /\ stores'[k].pc = "done") =>
              LET s == stores'[k] IN
              /\ s.result = "ok"
              /\ Cardinality(CredRows(credentials', s.user, s.type)) = 1
              /\ GetCredential(credentials', s.user, s.type) = s.value
              /\ \A u \in CredUsers, t \in CredTypes :
                    <<u, t>> # <<s.user, s.type>> =>
                        CredRows(credentials', u, t) = CredRows(credentials, u, t)]_vars

\* C27: a lookup by a session id that no row has returns no session and a
\* SessionNotFound error, and a lookup by id of an existing row returns it
\* without error; the active-session lookup of a scope returns no error,
\* and no session when the scope has no active session.
C27LookupKinds ==
    [][\A k \in 1..MaxLookups :
          (lookups[k].kind = "none" /\ lookups'[k].kind # "none") =>
              LET l == lookups'[k] IN
              /\ l.kind = "id" =>
                    /\ (\A i \in RowIds(sessions) :
                            sessions[i].session_id # l.id)
                          <=> l.err = "SessionNotFound"
                    /\ l.err = "SessionNotFound" => l.session = 0
                    /\ l.err # "SessionNotFound" =>
                          /\ l.err = "nil"
                          /\ sessions[l.session].session_id = l.id
              /\ l.kind = "scope" =>
                    /\ l.err = "nil"
                    /\ l.session # 0 =>
                          /\ sessions[l.session].status = "active"
                          /\ sessions[l.session].slack_channel_id = l.channel
                          /\ sessions[l.session].slack_thread_ts = l.thread
                    /\ (\A i \in RowIds(sessions) :
                            \/ sessions[i].status # "active"
                            \/ sessions[i].slack_channel_id # l.channel
                            \/ sessions[i].slack_thread_ts # l.thread)
                          => l.session = 0]_vars

C27Witness ==
    /\ sessions # <<>>
    /\ \E k \in 1..MaxLookups :
          /\ lookups[k].kind = "id"
          /\ lookups[k].session = 0
          /\ lookups[k].err = "SessionNotFound"
    /\ \E k \in 1..MaxLookups :
          /\ lookups[k].kind = "scope"
          /\ lookups[k].session = 0
          /\ lookups[k].err = "nil"

\* C28: when the setup calls made so far are all for one repository, a call
\* that returns a working directory returns one that holds the checkout of
\* the commit its own commit-ish resolves to, whatever the other calls do
\* meanwhile.
C28OwnCheckout ==
    \A k \in 1..MaxGitCalls :
        (/\ gitcalls[k].result = "ok"
         /\ \A j \in 1..MaxGitCalls :
               gitcalls[j].pc # "idle" => gitcalls[j].repoURL = gitcalls[k].repoURL
         /\ \A j \in 1..MaxGitCalls \ {k} :
               gitcalls[j].featureName # gitcalls[k].featureName)
        => worktrees[gitcalls[k].featureName]
              = [repo |-> gitcalls[k].repoURL, rev |-> gitcalls[k].fromCommitish]

\* C29: the clone a setup uses is the clone of its own repository URL: calls
\* for distinct URLs use distinct clone directories, a directory holds the
\* clone of the URL of every call that uses it, and no URL is cloned twice.
C29CacheKeyedByURL ==
    /\ \A j, k \in 1..MaxGitCalls :
          (/\ gitcalls[j].pc # "idle" /\ gitcalls[k].pc # "idle"
           /\ gitcalls[j].repoURL # gitcalls[k].repoURL)
          => gitcalls[j].repoPath # gitcalls[k].repoPath
    /\ \A k \in 1..MaxGitCalls :
          gitcalls[k].pc \in {"resolve", "checkout", "copy"}
          => repos[gitcalls[k].repoPath].origin = gitcalls[k].repoURL
    /\ \A j, k \in 1..MaxGitCalls :
          (j # k /\ gitcalls[j].cloned /\ gitcalls[k].cloned)
          => gitcalls[j].repoURL # gitcalls[k].repoURL

\* C30: whenever the assistant writes a result line of subtype success or
\* error_max_turns that carries a cost, the cost callback is called with that
\* cost, so that the session's stored cost is that cost once the line has
\* been handled.
C30ResultCostForwarded ==
    [][Len(results') = Len(results) + 1 =>
          LET line == results'[Len(results')] IN
          (line.cost > 0 /\ line.subtype \in ResultSubtypes) =>
              \E i \in RowIds(sessions') :
                  /\ sessions'[i].session_id = line.sid
                  /\ sessions'[i].running_cost = line.cost]_vars

\* C31: a send call or a stop call whose caller has cancelled its context
\* while it waits returns with the context's error: the send does not run to
\* its command timeout, and the stop does not go on waiting for, or forcing,
\* the exit of a process that is still alive.
C31WaitsAreCancellable ==
    [][/\ \A k \in 1..MaxCmds :
            (/\ <<"send", k>> \in ctxDone
             /\ cmds[k].pc = "read" /\ cmds'[k].pc = "done")
            => cmds'[k].result \in {"ctx.Err", "ok"}
       /\ \A k \in 1..MaxStops :
            (/\ <<"stop", k>> \in ctxDone
             /\ stops[k].pc = "wait" /\ stops'[k].pc = "done"
             /\ procs[stops[k].proc].alive)
            => stops'[k].result = "ctx.Err"]_vars

StatusOfIn(rows, sessionID) ==
    IF GetSession(rows, sessionID) = 0 THEN "none"
    ELSE rows[GetSession(rows, sessionID)].status

\* C32: an endSession call sets the status to ending before its teardown,
\* then attempts process stop, commit-and-push and cleanup, each once and in
\* that order whether or not an earlier one failed, and sets the status to
\* ended only after the three.
C32TeardownInOrder ==
    [][\A e \in 1..MaxEnds :
          LET a == ends[e].pc
              b == ends'[e].pc IN
          a # b =>
            /\ a = "ending" => b = "stop" /\ StatusOfIn(sessions', ends[e].sid) = "ending"
            /\ a = "stop" => b = "commit"
            /\ a = "commit" => b = "cleanup"
            /\ a = "cleanup" => b = "ended"
            /\ a = "ended" => StatusOfIn(sessions', ends[e].sid) = "ended"
            /\ b = "stop" => a = "ending"
            /\ b = "commit" => a = "stop"
            /\ b = "cleanup" => a = "commit"
            /\ b = "ended" => a = "cleanup"
            /\ (a \in {"stop", "commit", "cleanup"}) => sessions' = sessions]_vars

C32Witness ==
    \E e \in 1..MaxEnds :
        /\ ends[e].pc = "ended"
        /\ {"stop", "commit"} \subseteq ends[e].failed
        /\ StatusOfIn(sessions, ends[e].sid) = "ending"

\* C33: an endSession call that finds no session of the id, or finds it in a
\* status other than active, returns an error without changing a row, a
\* process or a directory and without entering the teardown; a call that
\* finds the session active goes on to mark it ending.
C33EndNeedsActive ==
    [][\A e \in 1..MaxEnds :
          (ends[e].pc = "get" /\ ends'[e] # ends[e]) =>
              IF StatusOfIn(sessions, Head(ends[e].queue)) # "active"
              THEN /\ ends'[e].result = "SessionNotFound"
                   /\ ends'[e].pc \in {"get", "done"}
                   /\ UNCHANGED <<sessions, workdirs, streamProcs, processes,
                                  procs>>
              ELSE ends'[e].pc = "ending"]_vars

C33Witness ==
    \E e1, e2 \in 1..MaxEnds :
        /\ ends[e1].pc = "done" /\ ends[e1].result = "ok"
        /\ ends[e2].pc = "done" /\ ends[e2].result = "SessionNotFound"
        /\ ends[e2].failed = {}
        /\ StatusOfIn(sessions, 1) = "ended"

\* C34: whenever a session's persisted status is active, the registry that
\* sendToSession and endSession consult holds a running process for its id.
C34ActiveHasProcess ==
    \A i \in RowIds(sessions) :
        sessions[i].status = "active" =>
            /\ processes[sessions[i].session_id] # 0
            /\ procs[processes[sessions[i].session_id]].Status = "running"

Teardown == {"stop", "commit", "cleanup", "ended"}

\* C35: an endSession call enters the teardown of a session only when the
\* session is still active and no other call is in, or through, the teardown
\* of it, so that the sequence runs at most once for a session and an ended
\* session is never set back to ending.
C35TeardownAtMostOnce ==
    [][\A e \in 1..MaxEnds :
          (ends[e].pc = "ending" /\ ends'[e].pc = "stop") =>
              /\ StatusOfIn(sessions, ends[e].sid) = "active"
              /\ \A o \in 1..MaxEnds \ {e} :
                    ~(ends[o].sid = ends[e].sid /\ ends[o].pc \in Teardown)]_vars

\* C36: the insert of a validated createSession request whose feature name no
\* row carries adds the row, however many rows there are and whatever their
\* status.
C36FreshNameInserts ==
    [][\A c \in 1..MaxCreates :
          (/\ creates[c].pc = "insert" /\ creates'[c] # creates[c]
           /\ ~CheckBranchNameExists(sessions, creates[c].req.feature))
          => /\ creates'[c].pc = "owner"
             /\ Len(sessions') = Len(sessions) + 1]_vars

\* C37: the response a send call returns is output the process produced
\* after the call wrote its command, never a line that was waiting in the
\* output channel from before.
C37ResponseIsFresh ==
    \A k \in 1..MaxCmds :
        cmds[k].result = "ok" => cmds[k].got \notin cmds[k].old

C39TerminalRowFrozen ==
    [][\A i \in RowIds(sessions) :
          sessions[i].status \in Terminal =>
              /\ sessions'[i].running_cost = sessions[i].running_cost
              /\ sessions'[i].updated_at = sessions[i].updated_at]_vars

\* C40: while a stop call waits for its process to exit, a send call and a
\* start call that have not begun yet can begin, on any session.
C40StopDoesNotBlockOthers ==
    \A k \in 1..MaxStops :
        stops[k].pc = "wait" =>
            /\ \A j \in 1..MaxCmds :
                  NextSlot(cmds, j) => ENABLED CMSendBegin(j)
            /\ \A j \in 1..MaxStarts :
                  NextSlot(starts, j) => ENABLED CMStartSession(j)
=============================================================================
